---- MODULE Spec2Model ----
(***************************************************************************)
(* Model of the optimizer (Optimizer, OptimizationResult) and of the code  *)
(* generator (CodeGenerator, CodeGenerationResult) of the compiler, both   *)
(* in src/src/compiler/codegen/codegen.js.                                 *)
(*                                                                         *)
(* Trees are records with a "type" field, as the test helpers build them   *)
(* (src/src/tests/optimizer.test.js:12-47): no line/column fields.  An     *)
(* absent child is the record Null.  A NumericLiteral carries its value    *)
(* as text (a sequence of characters), a Literal carries a number.         *)
(* Numbers are exact rationals [n, d] in lowest terms; rounding of IEEE    *)
(* doubles is outside the bounds of the model.                             *)
(***************************************************************************)
EXTENDS Integers, Sequences, FiniteSets, TLC

(***************************************************************************)
(* Bounds                                                                  *)
(***************************************************************************)
\* numeric literals of the input trees are 0..MaxLit
MaxLit == 2
\* digits printed after the decimal point of a non-integer quotient
FracDigits == 3

(***************************************************************************)
(* Host numbers and their text                                             *)
(***************************************************************************)
Abs(i) == IF i < 0 THEN -i ELSE i
Sgn(i) == IF i < 0 THEN -1 ELSE IF i = 0 THEN 0 ELSE 1

RECURSIVE Gcd(_, _)
Gcd(a, b) == IF b = 0 THEN a ELSE Gcd(b, a % b)

\* the number n/d (d # 0) in lowest terms with a positive denominator
Num(n, d) ==
    LET g == Gcd(Abs(n), Abs(d))
    IN  [n |-> Sgn(n) * Sgn(d) * (Abs(n) \div g), d |-> Abs(d) \div g]

IntNum(i) == [n |-> i, d |-> 1]

JsAdd(x, y) == Num(x.n * y.d + y.n * x.d, x.d * y.d)
JsSub(x, y) == Num(x.n * y.d - y.n * x.d, x.d * y.d)
JsMul(x, y) == Num(x.n * y.n, x.d * y.d)
\* y # 0
JsDiv(x, y) == Num(x.n * y.d, x.d * y.n)
\* Math.trunc: rounds towards zero
JsTrunc(x) == Sgn(x.n) * (Abs(x.n) \div x.d)
\* the remainder operator: the result takes the sign of the dividend (y # 0)
JsMod(x, y) == JsSub(x, JsMul(y, IntNum(JsTrunc(JsDiv(x, y)))))

Digits == <<"0", "1", "2", "3", "4", "5", "6", "7", "8", "9">>
DigitVal(c) == (CHOOSE i \in 1..10 : Digits[i] = c) - 1

RECURSIVE NatToText(_)
NatToText(n) ==
    IF n < 10 THEN <<Digits[n + 1]>>
    ELSE NatToText(n \div 10) \o <<Digits[(n % 10) + 1]>>

RECURSIVE FracText(_, _, _)
FracText(r, d, k) ==
    IF r = 0 \/ k = 0 THEN <<>>
    ELSE <<Digits[((r * 10) \div d) + 1]>> \o FracText((r * 10) % d, d, k - 1)

\* Number.prototype.toString: "-" for negatives, integer digits, and for a
\* non-integer "." and the fraction digits (at most FracDigits of them)
NumberToString(x) ==
    LET sign == IF x.n < 0 THEN <<"-">> ELSE <<>>
        int  == NatToText(Abs(x.n) \div x.d)
        frac == FracText(Abs(x.n) % x.d, x.d, FracDigits)
    IN  sign \o int \o (IF frac = <<>> THEN <<>> ELSE <<".">> \o frac)

RECURSIVE ParseNat(_)
ParseNat(s) ==
    IF s = <<>> THEN 0
    ELSE ParseNat(SubSeq(s, 1, Len(s) - 1)) * 10 + DigitVal(s[Len(s)])

RECURSIVE Pow10(_)
Pow10(k) == IF k = 0 THEN 1 ELSE 10 * Pow10(k - 1)

\* parseFloat on a decimal text: optional "-", digits, optional "." digits
ParseFloat(s) ==
    LET neg  == s # <<>> /\ s[1] = "-"
        body == IF neg THEN Tail(s) ELSE s
        dots == {i \in 1..Len(body) : body[i] = "."}
        p    == IF dots = {} THEN Len(body) + 1 ELSE CHOOSE i \in dots : TRUE
        ip   == SubSeq(body, 1, p - 1)
        fp   == SubSeq(body, p + 1, Len(body))
        mag  == Num(ParseNat(ip) * Pow10(Len(fp)) + ParseNat(fp), Pow10(Len(fp)))
    IN  IF neg THEN Num(-mag.n, mag.d) ELSE mag

(***************************************************************************)
(* Tree nodes                                                              *)
(***************************************************************************)
Null == [type |-> "null"]
NumericLiteral(v) == [type |-> "NumericLiteral", value |-> v]
Literal(v) == [type |-> "Literal", value |-> v]
Identifier(name) == [type |-> "Identifier", name |-> name]
BinaryExpression(op, l, r) ==
    [type |-> "BinaryExpression", operator |-> op, left |-> l, right |-> r]
UnaryExpression(op, a) ==
    [type |-> "UnaryExpression", operator |-> op, argument |-> a]
ExpressionStatement(e) == [type |-> "ExpressionStatement", expression |-> e]
PrintStatement(e) == [type |-> "PrintStatement", expression |-> e]
Program(body) == [type |-> "Program", body |-> body]
BlockStatement(body) == [type |-> "BlockStatement", body |-> body]
AssignmentExpression(l, r) ==
    [type |-> "AssignmentExpression", operator |-> "=", left |-> l, right |-> r]
VariableDeclarator(name, init) ==
    [type |-> "VariableDeclarator", id |-> Identifier(name), init |-> init]
VariableDeclaration(declarations) ==
    [type |-> "VariableDeclaration", declarations |-> declarations]
IfStatement(test, consequent, alternate) ==
    [type |-> "IfStatement", test |-> test, consequent |-> consequent,
     alternate |-> alternate]
WhileStatement(test, body) ==
    [type |-> "WhileStatement", test |-> test, body |-> body]

\* createNumericLiteral of the tests: the text of the number
createNumericLiteral(i) == NumericLiteral(NumberToString(IntNum(i)))


(***************************************************************************)
(* OptimizationResult                                                      *)
(***************************************************************************)
NewOptimizationResult ==
    [success |-> FALSE,
     optimizedAST |-> Null,
     optimizations |-> <<>>,
     statistics |-> [constantFoldings |-> 0,
                     algebraicSimplifications |-> 0,
                     commonSubexpressionEliminations |-> 0,
                     deadCodeEliminations |-> 0,
                     totalOptimizations |-> 0],
     errors |-> <<>>,
     warnings |-> <<>>]

getNodeInfo(node) == [type |-> node.type, line |-> 0, column |-> 0]

\* one log entry, the counter of its type and the total counter
addOptimization(result, type, description, node) ==
    [result EXCEPT
        !.optimizations = Append(@, [type |-> type,
                                     description |-> description,
                                     node |-> getNodeInfo(node)]),
        !.statistics = [@ EXCEPT ![type] = @ + 1,
                                 !.totalOptimizations = @ + 1]]

addError(result, error) == [result EXCEPT !.errors = Append(@, error)]

\* mutant: the warning is not recorded
addWarningDropped(result, warning) == result

addWarning(result, warning) == [result EXCEPT !.warnings = Append(@, warning)]

(***************************************************************************)
(* The passes thread a context st = [result, optimizationCount] (the       *)
(* OptimizationResult passed along and the instance field                  *)
(* this.optimizationCount) and return [node, st].                          *)
(***************************************************************************)
\* one rewrite recorded: result.addOptimization(...); this.optimizationCount++
Recorded(st, type, description, node) ==
    [st EXCEPT !.result = addOptimization(@, type, description, node),
               !.optimizationCount = @ + 1]

\* a pass that throws: what it recorded before is kept in st, and thrown
\* holds the message of the exception (here always the TypeError of .type
\* read on a missing operand)
Thrown(st) == [node |-> Null, st |-> st, thrown |-> "TypeError"]
IsThrown(r) == "thrown" \in DOMAIN r

\* JSON.parse(JSON.stringify(node)): a structurally equal copy; the values
\* of the model are immutable, so the copy is the node itself
deepCloneNode(node) == node
deepCloneAST(ast) == ast

\* the keys of a node that hold child nodes, in Object.keys order
ChildKeys(node) ==
    CASE node.type = "Program" -> <<"body">>
      [] node.type = "BlockStatement" -> <<"body">>
      [] node.type = "ExpressionStatement" -> <<"expression">>
      [] node.type = "PrintStatement" -> <<"expression">>
      [] node.type = "BinaryExpression" -> <<"left", "right">>
      [] node.type = "AssignmentExpression" -> <<"left", "right">>
      [] node.type = "UnaryExpression" -> <<"argument">>
      [] node.type = "IfStatement" -> <<"test", "consequent", "alternate">>
      [] node.type = "WhileStatement" -> <<"test", "body">>
      [] node.type = "VariableDeclaration" -> <<"declarations">>
      [] node.type = "VariableDeclarator" -> <<"id", "init">>
      [] OTHER -> <<>>

\* Array.isArray(node[key])
IsArrayKey(node, key) ==
    \/ node.type \in {"Program", "BlockStatement"} /\ key = "body"
    \/ node.type = "VariableDeclaration" /\ key = "declarations"

RECURSIVE constantFolding(_, _)
RECURSIVE algebraicSimplification(_, _)
RECURSIVE deadCodeElimination(_, _)
RECURSIVE findCommonExpressions(_, _)
RECURSIVE commonSubexpressionElimination(_, _)
RECURSIVE MapArray(_, _, _)
RECURSIVE MapRest(_, _, _)
RECURSIVE MapChildren(_, _, _, _)
RECURSIVE MapNext(_, _, _, _)

ApplyPass(pass, node, st) ==
    CASE pass = "constantFolding" -> constantFolding(node, st)
      [] pass = "algebraicSimplification" -> algebraicSimplification(node, st)
      [] pass = "commonSubexpressionElimination" ->
             commonSubexpressionElimination(node, st)
      [] pass = "deadCodeElimination" -> deadCodeElimination(node, st)
      [] pass = "findCommonExpressions" -> findCommonExpressions(node, st)

\* the element n put before the elements of the result t
Prepend(n, t) == IF IsThrown(t) THEN t ELSE [node |-> <<n>> \o t.node, st |-> t.st]

\* array.map(child => pass(child, result)), left to right; h is the result
\* for the first element
MapArray(pass, arr, st) ==
    IF arr = <<>> THEN [node |-> <<>>, st |-> st]
    ELSE MapRest(pass, arr, ApplyPass(pass, Head(arr), st))

MapRest(pass, arr, h) ==
    IF IsThrown(h) THEN h ELSE Prepend(h.node, MapArray(pass, Tail(arr), h.st))

\* Object.keys(node).forEach(key => node[key] = pass(node[key], result)); r
\* is the result for the first key
MapChildren(pass, node, keys, st) ==
    IF keys = <<>> THEN [node |-> node, st |-> st]
    ELSE MapNext(pass, node, keys,
                 IF IsArrayKey(node, Head(keys))
                 THEN MapArray(pass, node[Head(keys)], st)
                 ELSE ApplyPass(pass, node[Head(keys)], st))

MapNext(pass, node, keys, r) ==
    IF IsThrown(r) THEN r
    ELSE MapChildren(pass, [node EXCEPT ![Head(keys)] = r.node], Tail(keys), r.st)

(***************************************************************************)
(* Constant folding                                                        *)
(***************************************************************************)
FoldDescription(leftValue, operator, rightValue, resultValue) ==
    <<"Folded constant expression: ">> \o NumberToString(leftValue)
        \o <<" ", operator, " ">> \o NumberToString(rightValue)
        \o <<" = ">> \o NumberToString(resultValue)

\* the folded literal and its log entry
Folded(optimizedNode, st, leftValue, rightValue, resultValue) ==
    [node |-> NumericLiteral(NumberToString(resultValue)),
     st |-> Recorded(st, "constantFoldings",
                FoldDescription(leftValue, optimizedNode.operator,
                                rightValue, resultValue),
                optimizedNode)]

\* mutant: the operands of the subtraction are swapped
FoldValueSwappedSub(operator, leftValue, rightValue) ==
    CASE operator = "+" -> JsAdd(leftValue, rightValue)
      [] operator = "-" -> JsSub(rightValue, leftValue)
      [] operator = "*" -> JsMul(leftValue, rightValue)
      [] operator = "/" -> JsDiv(leftValue, rightValue)
      [] operator = "%" -> JsMod(leftValue, rightValue)

\* the switch on the operator: the value of a fold that is not skipped
FoldValue(operator, leftValue, rightValue) ==
    CASE operator = "+" -> JsAdd(leftValue, rightValue)
      [] operator = "-" -> JsSub(leftValue, rightValue)
      [] operator = "*" -> JsMul(leftValue, rightValue)
      [] operator = "/" -> JsDiv(leftValue, rightValue)
      [] operator = "%" -> JsMod(leftValue, rightValue)

\* the switch on the operator, both operands being literals of the values
\* leftValue and rightValue
FoldLiterals(optimizedNode, st, leftValue, rightValue) ==
    CASE optimizedNode.operator = "/" /\ rightValue = IntNum(0) ->
            [node |-> optimizedNode,
             st |-> [st EXCEPT !.result = addWarning(@,
                 "Division by zero detected during constant folding")]]
      [] optimizedNode.operator = "%" /\ rightValue = IntNum(0) ->
            [node |-> optimizedNode,
             st |-> [st EXCEPT !.result = addWarning(@,
                 "Modulo by zero detected during constant folding")]]
      [] optimizedNode.operator \in {"+", "-", "*", "/", "%"}
            /\ ~(optimizedNode.operator \in {"/", "%"} /\ rightValue = IntNum(0)) ->
            Folded(optimizedNode, st, leftValue, rightValue,
                   FoldValue(optimizedNode.operator, leftValue, rightValue))
      [] OTHER -> [node |-> optimizedNode, st |-> st]

\* left.type === 'NumericLiteral' && right.type === 'NumericLiteral' reads
\* .type of a missing operand: of left, or of right once left is a literal
FoldReadsMissing(left, right) ==
    \/ left.type = "null"
    \/ left.type = "NumericLiteral" /\ right.type = "null"

\* the rewrite of one node whose children are already folded; c holds the
\* node and the context after the children
FoldBinaryExpression(c) ==
    IF IsThrown(c) THEN c
    ELSE IF /\ c.node.type = "BinaryExpression"
            /\ FoldReadsMissing(c.node.left, c.node.right)
         THEN Thrown(c.st)
         ELSE IF /\ c.node.type = "BinaryExpression"
                 /\ c.node.left.type = "NumericLiteral"
                 /\ c.node.right.type = "NumericLiteral"
              THEN FoldLiterals(c.node, c.st, ParseFloat(c.node.left.value),
                                ParseFloat(c.node.right.value))
              ELSE c

constantFolding(node, st) ==
    IF node.type = "null" THEN [node |-> node, st |-> st]
    ELSE FoldBinaryExpression(
             MapChildren("constantFolding", deepCloneNode(node), ChildKeys(node), st))

(***************************************************************************)
(* Algebraic simplification                                                *)
(***************************************************************************)
\* mutant: the value of the literal is not looked at
IsLiteralOfAnyValue(node, i) == node.type = "NumericLiteral"

\* node.type === 'NumericLiteral' && parseFloat(node.value) === i
IsLiteralOf(node, i) ==
    node.type = "NumericLiteral" /\ ParseFloat(node.value) = IntNum(i)

Simplified(optimizedNode, st, description, node) ==
    [node |-> node,
     st |-> Recorded(st, "algebraicSimplifications", <<description>>, optimizedNode)]

\* the rewrite of one node whose children are already simplified; the
\* identities are tried in the order of the source
SimplifyOperands(optimizedNode, st, operator, left, right) ==
    CASE operator = "+" /\ IsLiteralOf(right, 0) ->
            Simplified(optimizedNode, st, "Simplified x + 0 to x", left)
      [] operator = "+" /\ IsLiteralOf(left, 0) ->
            Simplified(optimizedNode, st, "Simplified 0 + x to x", right)
      [] operator = "-" /\ IsLiteralOf(right, 0) ->
            Simplified(optimizedNode, st, "Simplified x - 0 to x", left)
      [] operator = "*" /\ IsLiteralOf(right, 1) ->
            Simplified(optimizedNode, st, "Simplified x * 1 to x", left)
      [] operator = "*" /\ IsLiteralOf(left, 1) ->
            Simplified(optimizedNode, st, "Simplified 1 * x to x", right)
      [] operator = "*" /\ (IsLiteralOf(right, 0) \/ IsLiteralOf(left, 0)) ->
            Simplified(optimizedNode, st, "Simplified x * 0 to 0",
                       NumericLiteral(<<"0">>))
      [] operator = "/" /\ IsLiteralOf(right, 1) ->
            Simplified(optimizedNode, st, "Simplified x / 1 to x", left)
      [] OTHER -> [node |-> optimizedNode, st |-> st]

\* the identities read right.type first and left.type when the one on the
\* right does not apply: .type is read on a missing operand
SimplifyReadsMissing(operator, left, right) ==
    \/ operator \in {"+", "-", "*", "/"} /\ right.type = "null"
    \/ operator = "+" /\ ~IsLiteralOf(right, 0) /\ left.type = "null"
    \/ operator = "*" /\ ~IsLiteralOf(right, 1) /\ left.type = "null"

\* c holds the node and the context after the children
SimplifyBinaryExpression(c) ==
    IF IsThrown(c) THEN c
    ELSE IF c.node.type # "BinaryExpression" THEN c
    ELSE IF SimplifyReadsMissing(c.node.operator, c.node.left, c.node.right)
         THEN Thrown(c.st)
    ELSE SimplifyOperands(c.node, c.st, c.node.operator, c.node.left, c.node.right)

algebraicSimplification(node, st) ==
    IF node.type = "null" THEN [node |-> node, st |-> st]
    ELSE SimplifyBinaryExpression(
             MapChildren("algebraicSimplification", deepCloneNode(node),
                         ChildKeys(node), st))

(***************************************************************************)
(* Common-subexpression detection                                          *)
(***************************************************************************)
\* the characters of the strings that occur in keys
Chars(s) ==
    CASE s = "==" -> <<"=", "=">>
      [] s = "!=" -> <<"!", "=">>
      [] s = "<=" -> <<"<", "=">>
      [] s = ">=" -> <<">", "=">>
      [] s = "&&" -> <<"&", "&">>
      [] s = "||" -> <<"|", "|">>
      [] OTHER -> <<s>>

RECURSIVE getExpressionKey(_)
getExpressionKey(expr) ==
    CASE expr.type = "null" -> <<"null">>
      [] expr.type = "BinaryExpression" ->
            getExpressionKey(expr.left) \o Chars(expr.operator)
                \o getExpressionKey(expr.right)
      [] expr.type = "Identifier" -> Chars(expr.name)
      [] expr.type = "NumericLiteral" -> expr.value
      [] OTHER -> <<expr.type>>

\* mutant: no key is recorded
CheckKeyNotRecorded(currentNode, cx, exprKey) ==
    IF exprKey \in cx.expressionMap
    THEN Recorded(cx, "commonSubexpressionEliminations",
             <<"Found common subexpression: ">> \o exprKey, currentNode)
    ELSE cx

\* the check of one node after its children; cx = [result,
\* optimizationCount, expressionMap], expressionMap being the keys recorded
CheckKey(currentNode, cx, exprKey) ==
    IF exprKey \in cx.expressionMap
    THEN Recorded(cx, "commonSubexpressionEliminations",
             <<"Found common subexpression: ">> \o exprKey, currentNode)
    ELSE [cx EXCEPT !.expressionMap = @ \cup {exprKey}]

\* c holds the node and the context after the children
CheckCommonExpression(c) ==
    IF c.node.type = "BinaryExpression"
    THEN [node |-> c.node, st |-> CheckKey(c.node, c.st, getExpressionKey(c.node))]
    ELSE c

findCommonExpressions(currentNode, cx) ==
    IF currentNode.type = "null" THEN [node |-> currentNode, st |-> cx]
    ELSE CheckCommonExpression(
             MapChildren("findCommonExpressions", currentNode,
                         ChildKeys(currentNode), cx))

\* the outcome r of findCommonExpressions without its expressionMap
Detected(r) ==
    [node |-> r.node,
     st |-> [result |-> r.st.result, optimizationCount |-> r.st.optimizationCount]]

commonSubexpressionElimination(node, st) ==
    IF node.type = "null" THEN [node |-> node, st |-> st]
    ELSE Detected(findCommonExpressions(deepCloneNode(node),
                      [result |-> st.result,
                       optimizationCount |-> st.optimizationCount,
                       expressionMap |-> {}]))

(***************************************************************************)
(* Dead-code elimination                                                   *)
(***************************************************************************)
\* mutant: every expression statement counts as dead
IsDeadStatementAnyExpression(stmt) == stmt.type = "ExpressionStatement"

IsDeadStatement(stmt) ==
    /\ stmt.type = "ExpressionStatement"
    /\ stmt.expression.type # "null"
    /\ stmt.expression.type = "NumericLiteral"

\* body.filter(...): the statements kept, one log entry per statement dropped
RECURSIVE FilterBody(_, _)
FilterBody(body, st) ==
    IF body = <<>> THEN [node |-> <<>>, st |-> st]
    ELSE IF IsDeadStatement(Head(body))
         THEN FilterBody(Tail(body),
                         Recorded(st, "deadCodeEliminations",
                             <<"Removed dead code: standalone numeric literal">>,
                             Head(body)))
         ELSE Prepend(Head(body), FilterBody(Tail(body), st))

\* optimizedNode.body = body.map(stmt => this.deadCodeElimination(stmt,
\* result)), f being the filtered body
Filtered(optimizedNode, f) ==
    MapNext("deadCodeElimination", optimizedNode, <<"body">>,
            MapArray("deadCodeElimination", f.node, f.st))

deadCodeElimination(node, st) ==
    IF node.type = "null" THEN [node |-> node, st |-> st]
    ELSE IF node.type = "Program"
         THEN Filtered(deepCloneNode(node), FilterBody(node.body, st))
         ELSE MapChildren("deadCodeElimination", deepCloneNode(node),
                          ChildKeys(node), st)

(***************************************************************************)
(* One round                                                               *)
(***************************************************************************)
\* if (this.options.enableX) optimizedAST = this.x(optimizedAST, result);
\* r holds the tree and the context so far
RunPass(enabled, pass, r) ==
    IF IsThrown(r) THEN r
    ELSE IF enabled THEN ApplyPass(pass, r.node, r.st) ELSE r

\* mutant: the simplifier runs before the folder
performOptimizationPassSimplifierFirst(ast, st, options) ==
    RunPass(options.enableDeadCodeElimination, "deadCodeElimination",
      RunPass(options.enableCommonSubexpressionElimination,
              "commonSubexpressionElimination",
        RunPass(options.enableConstantFolding, "constantFolding",
          RunPass(options.enableAlgebraicSimplification, "algebraicSimplification",
                  [node |-> ast, st |-> st]))))

performOptimizationPass(ast, st, options) ==
    RunPass(options.enableDeadCodeElimination, "deadCodeElimination",
      RunPass(options.enableCommonSubexpressionElimination,
              "commonSubexpressionElimination",
        RunPass(options.enableAlgebraicSimplification, "algebraicSimplification",
          RunPass(options.enableConstantFolding, "constantFolding",
                  [node |-> ast, st |-> st]))))

(***************************************************************************)
(* Inputs                                                                  *)
(***************************************************************************)
\* statements per Program body of the inputs
MaxBody == 2

ArithmeticOps == {"+", "-", "*", "/", "%"}
\* "<" stands for the operators the folder and the simplifier leave alone
OptimizerOps == ArithmeticOps \cup {"<"}

LiteralLeaves == {createNumericLiteral(i) : i \in 0..MaxLit}
Leaves == {Identifier("a")} \cup LiteralLeaves

BinaryOver(ops, ls, rs) ==
    {BinaryExpression(op, l, r) : op \in ops, l \in ls, r \in rs}

Expr1 == BinaryOver(OptimizerOps, Leaves, Leaves)
Expr2 == BinaryOver(OptimizerOps, Expr1, Leaves)
            \cup BinaryOver(OptimizerOps, Leaves, Expr1)

\* all-literal trees, both operands nested
LiteralExpr1 == BinaryOver(ArithmeticOps, LiteralLeaves, LiteralLeaves)
LiteralExpr2 ==
    BinaryOver(ArithmeticOps, LiteralLeaves \cup LiteralExpr1,
               LiteralLeaves \cup LiteralExpr1)

StatementExprs ==
    {createNumericLiteral(1), createNumericLiteral(MaxLit), Identifier("a"),
     BinaryExpression("+", createNumericLiteral(1), createNumericLiteral(1)),
     BinaryExpression("*", Identifier("a"), createNumericLiteral(1)),
     BinaryExpression("+", Identifier("a"), Identifier("a"))}
Statements ==
    {ExpressionStatement(e) : e \in StatementExprs}
        \cup {PrintStatement(Identifier("a"))}

RECURSIVE SeqsUpTo(_, _)
SeqsUpTo(S, k) ==
    IF k = 0 THEN {<<>>}
    ELSE LET shorter == SeqsUpTo(S, k - 1)
         IN  shorter \cup {Append(q, x) : q \in shorter, x \in S}

Programs == {Program(body) : body \in SeqsUpTo(Statements, MaxBody)}

ExprInputs == Leaves \cup Expr1 \cup Expr2

\* ((e - 1) + 1) * a: once e is the literal 0 a fold and a simplification
\* take it to 0, and e - 1 is left to the fold of the round after
Dip(e) ==
    BinaryExpression("*",
        BinaryExpression("+",
            BinaryExpression("-", e, createNumericLiteral(1)),
            createNumericLiteral(1)),
        Identifier("a"))

\* a tree that still has a fold to make after DefaultMaxOptimizationPasses
\* rounds
RoundLimitTree ==
    BinaryExpression("-",
        Dip(Dip(BinaryExpression("*", Identifier("a"), createNumericLiteral(0)))),
        createNumericLiteral(1))

OptimizeInputs == ExprInputs \cup Programs \cup {RoundLimitTree}
FoldInputs == ExprInputs \cup LiteralExpr2 \cup Programs

(***************************************************************************)
(* State                                                                   *)
(***************************************************************************)
VARIABLES
    options,            \* this.options of the Optimizer
    optimizationCount,  \* this.optimizationCount
    currentPass,        \* this.currentPass
    pc,                 \* "idle", "loop" (inside optimize) or "done"
    entry,              \* the public method called last
    ast,                \* its argument
    optimizedAST,       \* the local optimizedAST / the value a pass returned
    hasChanges,         \* the local hasChanges of optimize
    result,             \* the OptimizationResult of the call
    rerun,              \* the argument is the tree the previous optimize returned
    rounds              \* history: the rewrites each round of the call recorded

optVars == <<options, optimizationCount, currentPass, pc, entry, ast,
             optimizedAST, hasChanges, result, rerun, rounds>>

\* the state of the CodeGenerator
VARIABLES
    optimizeCode,       \* this.options.optimizeCode
    labelCounter,       \* this.labelCounter
    genResult,          \* this.result
    gpc,                \* "idle", "walk" (inside generate) or "done"
    genAst,             \* the argument ast of generate
    genSymbolTable,     \* the argument symbolTable of generate
    work                \* the tasks of the calls in progress, innermost first

genVars == <<optimizeCode, labelCounter, genResult, gpc, genAst,
             genSymbolTable, work>>

\* the state of the Compiler and of the compilation it is running
VARIABLES
    compilerOptions,    \* this.options of the Compiler
    cpc,                \* position inside compile / compileFile
    centry,             \* the entry point that was called
    compilation,        \* the CompilationResult of the call
    phasesRun           \* the phases performed by the call, with their outcome

compilerVars == <<compilerOptions, cpc, centry, compilation, phasesRun>>

\* the calls of optimize and of generate made on the present instances
VARIABLES
    optimizeCalls,
    generateCalls

callVars == <<optimizeCalls, generateCalls>>

\* the objects of the trees an Optimizer is called with
VARIABLES
    hheap,              \* the objects allocated so far, by address
    hbefore,            \* the objects as they were when the call was made
    hroot,              \* the address of the tree passed in
    hreturned,          \* the address of the tree returned
    hentry,             \* the method that was called
    hpc                 \* "empty", "built" or "done"

heapVars == <<hheap, hbefore, hroot, hreturned, hentry, hpc>>

vars == <<optVars, genVars, compilerVars, callVars, heapVars>>

DefaultMaxOptimizationPasses == 3

DefaultOptions ==
    [enableConstantFolding |-> TRUE,
     enableAlgebraicSimplification |-> TRUE,
     enableCommonSubexpressionElimination |-> TRUE,
     enableDeadCodeElimination |-> TRUE,
     maxOptimizationPasses |-> DefaultMaxOptimizationPasses]

\* the options an Optimizer is constructed with
OptionChoices ==
    {[DefaultOptions EXCEPT !.maxOptimizationPasses = m] :
        m \in 0..DefaultMaxOptimizationPasses}

\* new Optimizer(options)
OptInit ==
    /\ options \in OptionChoices
    /\ optimizationCount = 0
    /\ currentPass = 0
    /\ pc = "idle"
    /\ entry = "none"
    /\ ast = Null
    /\ optimizedAST = Null
    /\ hasChanges = FALSE
    /\ result = NewOptimizationResult
    /\ rerun = FALSE
    /\ rounds = <<>>
    /\ optimizeCalls = 0

St == [result |-> result, optimizationCount |-> optimizationCount]

\* optimize(t) up to the loop
OptimizeEnter(t, again) ==
    /\ entry' = "optimize"
    /\ result' = NewOptimizationResult
    /\ ast' = t
    /\ optimizedAST' = deepCloneAST(t)
    /\ hasChanges' = TRUE
    /\ currentPass' = 0
    /\ pc' = "loop"
    /\ rerun' = again
    /\ rounds' = <<>>
    /\ optimizeCalls' = optimizeCalls + 1
    /\ UNCHANGED <<options, optimizationCount>>
    /\ UNCHANGED <<genVars, compilerVars, generateCalls, heapVars>>

Optimize ==
    /\ pc = "idle"
    /\ \E t \in OptimizeInputs : OptimizeEnter(t, FALSE)

\* optimize called on the tree the previous optimize call returned
OptimizeAgain ==
    /\ pc = "done" /\ entry = "optimize" /\ ~rerun
    /\ OptimizeEnter(result.optimizedAST, TRUE)

\* mutant: the loop does not stop at a round without changes
LoopConditionIgnoringChanges == currentPass < options.maxOptimizationPasses

\* while (hasChanges && this.currentPass < maxOptimizationPasses)
LoopCondition ==
    hasChanges /\ currentPass < options.maxOptimizationPasses

\* the body of the loop, r being what performOptimizationPass returned
RoundDone(passStartCount, r) ==
    /\ currentPass' = currentPass + 1
    /\ optimizedAST' = r.node
    /\ result' = r.st.result
    /\ optimizationCount' = r.st.optimizationCount
    /\ hasChanges' = (r.st.optimizationCount > passStartCount)
    /\ rounds' = Append(rounds, r.st.result.statistics.totalOptimizations
                                   - result.statistics.totalOptimizations)
    /\ UNCHANGED <<options, pc, entry, ast, rerun>>
    /\ UNCHANGED <<genVars, compilerVars, callVars, heapVars>>

\* mutant: optimize has no catch clause, the exception leaves it
OptimizeCatchMissing(r) ==
    /\ result' = r.st.result
    /\ optimizationCount' = r.st.optimizationCount
    /\ currentPass' = currentPass + 1
    /\ pc' = "thrown"
    /\ UNCHANGED <<options, entry, ast, optimizedAST, hasChanges, rerun, rounds>>
    /\ UNCHANGED <<genVars, compilerVars, callVars, heapVars>>

\* catch (error): result.addError({message: `Optimization error: ...`}),
\* then return result; r is the thrown outcome of the round
OptimizeCatch(r) ==
    /\ result' = addError(r.st.result,
                          [message |-> <<"Optimization error: ", r.thrown>>,
                           line |-> 0, column |-> 0])
    /\ optimizationCount' = r.st.optimizationCount
    /\ currentPass' = currentPass + 1
    /\ pc' = "done"
    /\ UNCHANGED <<options, entry, ast, optimizedAST, hasChanges, rerun, rounds>>
    /\ UNCHANGED <<genVars, compilerVars, callVars, heapVars>>

RoundOutcome(passStartCount, r) ==
    IF IsThrown(r) THEN OptimizeCatch(r) ELSE RoundDone(passStartCount, r)

\* one iteration of the loop
OptimizationRound ==
    /\ pc = "loop"
    /\ LoopCondition
    /\ RoundOutcome(optimizationCount,
                    performOptimizationPass(optimizedAST, St, options))

\* after the loop: the outcome is filled in and returned
OptimizeReturn ==
    /\ pc = "loop"
    /\ ~LoopCondition
    /\ result' = [result EXCEPT !.optimizedAST = optimizedAST, !.success = TRUE]
    /\ pc' = "done"
    /\ UNCHANGED <<options, optimizationCount, currentPass, entry, ast,
                   optimizedAST, hasChanges, rerun, rounds>>
    /\ UNCHANGED <<genVars, compilerVars, callVars, heapVars>>

\* a pass called directly, as the tests do, with a new OptimizationResult
PassCall(name, t, r) ==
    /\ entry' = name
    /\ ast' = t
    /\ optimizedAST' = r.node
    /\ result' = r.st.result
    /\ optimizationCount' = r.st.optimizationCount
    /\ pc' = "done"
    /\ UNCHANGED <<options, currentPass, hasChanges, rerun, rounds>>
    /\ UNCHANGED <<genVars, compilerVars, callVars, heapVars>>

FreshSt == [result |-> NewOptimizationResult, optimizationCount |-> optimizationCount]

ConstantFoldingCall ==
    /\ pc = "idle"
    /\ \E t \in FoldInputs :
           PassCall("constantFolding", t, constantFolding(t, FreshSt))

AlgebraicSimplificationCall ==
    /\ pc = "idle"
    /\ \E t \in OptimizeInputs :
           PassCall("algebraicSimplification", t,
                    algebraicSimplification(t, FreshSt))

\* programs of two statements whose expressions differ in the grouping of
\* the operands or inside a unary operand
GroupingPrograms ==
    {Program(<<ExpressionStatement(
                   BinaryExpression("-",
                       BinaryExpression("-", Identifier("a"), Identifier("b")),
                       Identifier("c"))),
               ExpressionStatement(
                   BinaryExpression("-", Identifier("a"),
                       BinaryExpression("-", Identifier("b"), Identifier("c"))))>>),
     Program(<<ExpressionStatement(
                   BinaryExpression("+", UnaryExpression("-", Identifier("a")),
                                    Identifier("c"))),
               ExpressionStatement(
                   BinaryExpression("+", UnaryExpression("-", Identifier("b")),
                                    Identifier("c")))>>)}

CommonSubexpressionEliminationCall ==
    /\ pc = "idle"
    /\ \E t \in OptimizeInputs \cup GroupingPrograms :
           PassCall("commonSubexpressionElimination", t,
                    commonSubexpressionElimination(t, FreshSt))

DeadCodeEliminationCall ==
    /\ pc = "idle"
    /\ \E t \in OptimizeInputs :
           PassCall("deadCodeElimination", t, deadCodeElimination(t, FreshSt))

\* the instance is dropped and a new Optimizer is constructed
NewOptimizer ==
    /\ pc = "done"
    /\ options' \in OptionChoices
    /\ optimizationCount' = 0
    /\ currentPass' = 0
    /\ pc' = "idle"
    /\ entry' = "none"
    /\ ast' = Null
    /\ optimizedAST' = Null
    /\ hasChanges' = FALSE
    /\ result' = NewOptimizationResult
    /\ rerun' = FALSE
    /\ rounds' = <<>>
    /\ optimizeCalls' = 0
    /\ UNCHANGED <<genVars, compilerVars, generateCalls, heapVars>>

OptNext ==
    \/ Optimize
    \/ OptimizeAgain
    \/ OptimizationRound
    \/ OptimizeReturn
    \/ ConstantFoldingCall
    \/ AlgebraicSimplificationCall
    \/ CommonSubexpressionEliminationCall
    \/ DeadCodeEliminationCall
    \/ NewOptimizer

(***************************************************************************)
(* Properties of the optimizer                                             *)
(***************************************************************************)
OptimizeDone == pc = "done" /\ entry = "optimize"
PassDone(name) == pc = "done" /\ entry = name

\* C1: with the default options, optimize called on the tree a previous
\* optimize call returned records no rewrite (totalOptimizations = 0) and
\* returns a tree structurally equal to its argument.
C1_SecondRunChangesNothing ==
    (OptimizeDone /\ rerun /\ options = DefaultOptions)
        => /\ result.statistics.totalOptimizations = 0
           /\ result.optimizedAST = ast

\* C2: optimize runs its rounds one after another; every round but the last
\* recorded a rewrite, the last one recorded none or was round number
\* maxOptimizationPasses, and the outcome has success = TRUE.  So an input
\* on which every round records a rewrite gets exactly maxOptimizationPasses
\* rounds.
C2_RoundDriver ==
    OptimizeDone
        => /\ result.success
           /\ currentPass = Len(rounds)
           /\ Len(rounds) <= options.maxOptimizationPasses
           /\ \A i \in 1..(Len(rounds) - 1) : rounds[i] > 0
           /\ \/ Len(rounds) = options.maxOptimizationPasses
              \/ rounds[Len(rounds)] = 0

\* three rounds ran under the default limit and each recorded a rewrite
C2_Witness ==
    /\ OptimizeDone
    /\ options.maxOptimizationPasses = DefaultMaxOptimizationPasses
    /\ Len(rounds) = DefaultMaxOptimizationPasses
    /\ \A i \in 1..Len(rounds) : rounds[i] > 0

\* the host's evaluation of an all-literal tree, on numbers
RECURSIVE Eval(_)
Eval(t) ==
    IF t.type = "NumericLiteral" THEN ParseFloat(t.value)
    ELSE LET l == Eval(t.left)
             r == Eval(t.right)
         IN  CASE t.operator = "+" -> JsAdd(l, r)
               [] t.operator = "-" -> JsSub(l, r)
               [] t.operator = "*" -> JsMul(l, r)
               [] t.operator = "%" -> JsMod(l, r)

\* trees of BinaryExpressions over + - * % with literal leaves, no % by zero
RECURSIVE Foldable(_)
Foldable(t) ==
    \/ t.type = "NumericLiteral"
    \/ /\ t.type = "BinaryExpression"
       /\ t.operator \in {"+", "-", "*", "%"}
       /\ Foldable(t.left)
       /\ Foldable(t.right)
       /\ (t.operator = "%" => Eval(t.right) # IntNum(0))

\* the log entries of the folds of a tree, children before their parent
RECURSIVE FoldLog(_)
FoldLog(t) ==
    IF t.type = "NumericLiteral" THEN <<>>
    ELSE FoldLog(t.left) \o FoldLog(t.right)
            \o <<[type |-> "constantFoldings",
                  description |-> FoldDescription(Eval(t.left), t.operator,
                                                  Eval(t.right), Eval(t)),
                  node |-> [type |-> "BinaryExpression", line |-> 0, column |-> 0]]>>

\* C3: constantFolding of a tree of + - * % over integer literals (no % by
\* zero) returns the literal whose value is the text of the host's
\* evaluation of the tree, and counts and logs one fold per
\* BinaryExpression, children before their parent.
C3_FoldCorrect ==
    (PassDone("constantFolding") /\ Foldable(ast))
        => /\ optimizedAST = NumericLiteral(NumberToString(Eval(ast)))
           /\ result.statistics.constantFoldings = Len(FoldLog(ast))
           /\ result.statistics.totalOptimizations = Len(FoldLog(ast))
           /\ result.optimizations = FoldLog(ast)

\* (1 - 2) % (1 + 1) folded to -1 in three folds
C3_Witness ==
    /\ PassDone("constantFolding")
    /\ ast = BinaryExpression("%",
                BinaryExpression("-", createNumericLiteral(1), createNumericLiteral(2)),
                BinaryExpression("+", createNumericLiteral(1), createNumericLiteral(1)))
    /\ optimizedAST = NumericLiteral(<<"-", "1">>)
    /\ result.statistics.constantFoldings = 3

ZeroDivision(t) ==
    /\ t.type = "BinaryExpression"
    /\ t.operator \in {"/", "%"}
    /\ t.left.type = "NumericLiteral"
    /\ t.right = createNumericLiteral(0)

\* C4: constantFolding of a / 0 or a % 0 (a, 0 literals) returns a node
\* structurally equal to its argument, records a warning and leaves the
\* constantFoldings counter and the log unchanged.
C4_ZeroDivisorNotFolded ==
    (PassDone("constantFolding") /\ ZeroDivision(ast))
        => /\ optimizedAST = ast
           /\ Len(result.warnings) = 1
           /\ result.statistics.constantFoldings = 0
           /\ result.statistics.totalOptimizations = 0
           /\ result.optimizations = <<>>

C4_Witness ==
    /\ PassDone("constantFolding")
    /\ ast = BinaryExpression("%", createNumericLiteral(1), createNumericLiteral(0))
    /\ optimizedAST = ast
    /\ result.warnings = <<"Modulo by zero detected during constant folding">>

Zero == createNumericLiteral(0)
One == createNumericLiteral(1)

\* one of the eight identities matches operator, l, r
IdentityMatches(operator, l, r) ==
    \/ operator = "+" /\ (r = Zero \/ l = Zero)
    \/ operator = "-" /\ r = Zero
    \/ operator = "*" /\ (r = One \/ l = One \/ r = Zero \/ l = Zero)
    \/ operator = "/" /\ r = One

\* no identity matches anywhere in the tree
RECURSIVE Irreducible(_)
Irreducible(t) ==
    t.type = "BinaryExpression"
        => /\ ~IdentityMatches(t.operator, t.left, t.right)
           /\ Irreducible(t.left)
           /\ Irreducible(t.right)

\* the operand an identity leaves, the operands x taken as the pass finds
\* them: simplified before their parent
RECURSIVE Simplest(_)
Simplest(t) ==
    IF t.type # "BinaryExpression" THEN t
    ELSE LET l == Simplest(t.left)
             r == Simplest(t.right)
         IN  CASE t.operator \in {"+", "-"} /\ r = Zero -> l
               [] t.operator = "+" /\ l = Zero -> r
               [] t.operator \in {"*", "/"} /\ r = One -> l
               [] t.operator = "*" /\ l = One -> r
               [] t.operator = "*" /\ (l = Zero \/ r = Zero) -> Zero
               [] OTHER -> [t EXCEPT !.left = l, !.right = r]

\* the number of identities applied in the tree
RECURSIVE IdentityCount(_)
IdentityCount(t) ==
    IF t.type # "BinaryExpression" THEN 0
    ELSE IdentityCount(t.left) + IdentityCount(t.right)
            + (IF IdentityMatches(t.operator, Simplest(t.left), Simplest(t.right))
               THEN 1 ELSE 0)

\* C5: algebraicSimplification of a BinaryExpression over the operands l, r,
\* simplified first, rewrites x+0, 0+x, x-0, x/1, x*1, 1*x to x and x*0, 0*x
\* to the literal 0 with one algebraicSimplifications increment per identity
\* applied; a BinaryExpression matching none of the identities keeps its
\* operator and operands with no increment of its own, and a tree with no
\* identity anywhere is returned unchanged with no increment at all.
C5_SimplificationCorrect ==
    (PassDone("algebraicSimplification") /\ ast.type = "BinaryExpression")
        => LET op == ast.operator
               l  == Simplest(ast.left)
               r  == Simplest(ast.right)
               n  == result.statistics.algebraicSimplifications
               below == IdentityCount(ast.left) + IdentityCount(ast.right)
           IN  /\ (op = "+" /\ r = Zero) => optimizedAST = l
               /\ (op = "+" /\ l = Zero) => optimizedAST = r
               /\ (op = "-" /\ r = Zero) => optimizedAST = l
               /\ (op = "/" /\ r = One) => optimizedAST = l
               /\ (op = "*" /\ r = One) => optimizedAST = l
               /\ (op = "*" /\ l = One) => optimizedAST = r
               /\ (op = "*" /\ (r = Zero \/ l = Zero)) => optimizedAST = Zero
               /\ IdentityMatches(op, l, r)
                    => n = below + 1 /\ Len(result.optimizations) = n
               /\ ~IdentityMatches(op, l, r)
                    => /\ optimizedAST = [ast EXCEPT !.left = l, !.right = r]
                       /\ n = below
                       /\ Len(result.optimizations) = n
               /\ Irreducible(ast)
                    => optimizedAST = ast /\ n = 0 /\ result.optimizations = <<>>

\* (a / 0) * 1 simplified to a / 0
C5_Witness ==
    /\ PassDone("algebraicSimplification")
    /\ ast = BinaryExpression("*",
                BinaryExpression("/", Identifier("a"), Zero), One)
    /\ optimizedAST = BinaryExpression("/", Identifier("a"), Zero)
    /\ result.statistics.algebraicSimplifications = 1

\* the tree holds a division or a modulo by a zero-valued literal
RECURSIVE HasZeroDivisor(_)
HasZeroDivisor(t) ==
    CASE t.type = "BinaryExpression" ->
            \/ /\ t.operator \in {"/", "%"}
               /\ t.right.type = "NumericLiteral"
               /\ ParseFloat(t.right.value) = IntNum(0)
            \/ HasZeroDivisor(t.left)
            \/ HasZeroDivisor(t.right)
      [] t.type \in {"ExpressionStatement", "PrintStatement"} ->
            HasZeroDivisor(t.expression)
      [] t.type = "Program" ->
            \E i \in 1..Len(t.body) : HasZeroDivisor(t.body[i])
      [] OTHER -> FALSE

\* C6: when the tree given to optimize holds a division or modulo by a
\* zero-valued literal, the tree optimize returns still holds one.
C6_FaultKept ==
    (OptimizeDone /\ HasZeroDivisor(ast)) => HasZeroDivisor(result.optimizedAST)

DeadStatement(s) ==
    s.type = "ExpressionStatement" /\ s.expression.type = "NumericLiteral"

NoOperand == [kind |-> "null"]
Value(v) == [kind |-> "value", value |-> v]
Address(a) == [kind |-> "address", address |-> a]
Undefined == [kind |-> "undefined"]
LabelName(prefix, n) == [kind |-> "label", name |-> <<prefix, n>>]

NewCodeGenerationResult ==
    [success |-> FALSE,
     instructions |-> <<>>,
     assembly |-> <<>>,
     symbolTable |-> <<>>,
     labelTable |-> <<>>,
     errors |-> <<>>,
     warnings |-> <<>>,
     statistics |-> [instructionCount |-> 0, variableCount |-> 0, labelCount |-> 0]]

\* mutant: the address is the length after the push
addInstructionAddressAfter(res, opcode, operand) ==
    [res EXCEPT
        !.instructions = Append(@, [address |-> Len(res.instructions) + 1,
                                    opcode |-> opcode,
                                    operand |-> operand]),
        !.statistics.instructionCount = @ + 1]

addInstruction(res, opcode, operand) ==
    [res EXCEPT
        !.instructions = Append(@, [address |-> Len(res.instructions),
                                    opcode |-> opcode,
                                    operand |-> operand]),
        !.statistics.instructionCount = @ + 1]

\* Map.set: the entry of an existing key is replaced in place
MapSet(table, key, value) ==
    IF \E i \in 1..Len(table) : table[i].key = key
    THEN [i \in 1..Len(table) |->
            IF table[i].key = key THEN [key |-> key, value |-> value] ELSE table[i]]
    ELSE Append(table, [key |-> key, value |-> value])

\* Map.get: the value of the key, or undefined
MapGet(table, key) ==
    IF \E i \in 1..Len(table) : table[i].key = key
    THEN Address(table[CHOOSE i \in 1..Len(table) : table[i].key = key].value)
    ELSE Undefined

addLabel(res, name) ==
    [res EXCEPT !.labelTable = MapSet(@, name, Len(res.instructions)),
                !.statistics.labelCount = @ + 1]

addVariable(res, name, address) ==
    [res EXCEPT !.symbolTable = MapSet(@, name, address),
                !.statistics.variableCount = @ + 1]

\* String.padStart(n, "0") of a digit text
RECURSIVE PadStart(_, _)
PadStart(text, n) == IF Len(text) >= n THEN text ELSE PadStart(<<"0">> \o text, n)

AddressWidth == 4

\* the lines of the assembly text: two header comments and an empty line,
\* the symbol table if it is not empty, one line per instruction
generateAssembly(res) ==
    LET header  == <<[line |-> "comment"], [line |-> "comment"], [line |-> "empty"]>>
        symbols == IF res.symbolTable = <<>> THEN <<>>
                   ELSE <<[line |-> "comment"]>>
                        \o [i \in 1..Len(res.symbolTable) |->
                               [line |-> "symbol",
                                name |-> res.symbolTable[i].key,
                                address |-> res.symbolTable[i].value]]
                        \o <<[line |-> "empty"]>>
        code    == [i \in 1..Len(res.instructions) |->
                       [line |-> "instruction",
                        address |-> PadStart(NatToText(res.instructions[i].address),
                                             AddressWidth),
                        opcode |-> res.instructions[i].opcode,
                        operand |-> res.instructions[i].operand]]
    IN  [res EXCEPT !.assembly = header \o symbols \o code]

\* initializeSymbolTable: the entries of type "variable" get 0, 1, ...
RECURSIVE initializeSymbolTable(_, _, _)
initializeSymbolTable(res, symbolTable, address) ==
    IF symbolTable = <<>> THEN res
    ELSE LET e == Head(symbolTable)
         IN  IF e.type = "variable"
             THEN initializeSymbolTable(addVariable(res, e.name, address),
                                        Tail(symbolTable), address + 1)
             ELSE initializeSymbolTable(res, Tail(symbolTable), address)

\* the scan of optimizeInstructions from index i (0-based) on; found tells
\* whether a pair was removed before
RECURSIVE PeepholeScan(_, _, _)
PeepholeScan(instructions, i, found) ==
    IF ~(i < Len(instructions) - 1)
    THEN [instructions |-> instructions, optimized |-> found]
    ELSE IF instructions[i + 1].opcode = "PUSH" /\ instructions[i + 2].opcode = "POP"
         THEN \* splice(i, 2); i--; and the i++ of the loop
              PeepholeScan(SubSeq(instructions, 1, i)
                               \o SubSeq(instructions, i + 3, Len(instructions)),
                           i, TRUE)
         ELSE PeepholeScan(instructions, i + 1, found)

\* mutant: the addresses are left as they were
updateInstructionAddressesSkipped(res) == res

\* the addresses are renumbered; every label keeps its old address
updateInstructionAddresses(res) ==
    [res EXCEPT
        !.instructions = [i \in 1..Len(res.instructions) |->
                             [res.instructions[i] EXCEPT !.address = i - 1]],
        !.labelTable = [i \in 1..Len(res.labelTable) |-> res.labelTable[i]]]

optimizeInstructions(res, enabled) ==
    IF ~enabled THEN res
    ELSE LET scan == PeepholeScan(res.instructions, 0, FALSE)
             r    == [res EXCEPT !.instructions = scan.instructions]
         IN  IF scan.optimized THEN updateInstructionAddresses(r) ELSE r

\* mutant: the label counter is left out of the name
generateLabelWithoutCounter(prefix, n) == LabelName(prefix, 0)

\* generateLabel(prefix) with the counter n
generateLabel(prefix, n) == LabelName(prefix, n)

(***************************************************************************)
(* CodeGenerator: state                                                    *)
(*                                                                         *)
(* The recursion of generateNode is a stack of tasks, work: a node still   *)
(* to generate, or what a generate method does after the nodes it calls    *)
(* generateNode on (emit an instruction, store, place a label, ...).       *)
(***************************************************************************)
NodeTask(node) == [t |-> "node", node |-> node]
EmitTask(opcode, operand) == [t |-> "emit", opcode |-> opcode, operand |-> operand]
DeclarationStoreTask(name) == [t |-> "declarationStore", name |-> name]
AssignmentStoreTask(left) == [t |-> "assignmentStore", left |-> left]
BinaryOperatorTask(operator) == [t |-> "binaryOperator", operator |-> operator]
UnaryOperatorTask(operator) == [t |-> "unaryOperator", operator |-> operator]
LabelTask(name) == [t |-> "label", name |-> name]
ExitTask == [t |-> "exit"]

\* new CodeGenerator(options)
GenInit ==
    /\ optimizeCode \in BOOLEAN
    /\ labelCounter = 0
    /\ genResult = Null
    /\ gpc = "idle"
    /\ genAst = Null
    /\ genSymbolTable = <<>>
    /\ work = <<>>
    /\ generateCalls = 0

Top == Head(work)
Rest == Tail(work)
AtNode(type) ==
    gpc = "walk" /\ work # <<>> /\ Top.t = "node" /\ Top.node.type = type
AtTask(t) == gpc = "walk" /\ work # <<>> /\ Top.t = t

\* the tasks replace the one on top
Continue(res, tasks) ==
    /\ genResult' = res
    /\ work' = tasks \o Rest
    /\ UNCHANGED <<optimizeCode, labelCounter, gpc, genAst, genSymbolTable>>
    /\ UNCHANGED <<optVars, compilerVars, callVars, heapVars>>

\* throw new Error(message), caught in generate: one generation_error is
\* recorded, success is false and generate returns
Throw(message) ==
    /\ genResult' = [genResult EXCEPT
                        !.errors = Append(@, [type |-> "generation_error",
                                              message |-> message]),
                        !.success = FALSE]
    /\ work' = <<>>
    /\ gpc' = "done"
    /\ UNCHANGED <<optimizeCode, labelCounter, genAst, genSymbolTable>>
    /\ UNCHANGED <<optVars, compilerVars, callVars, heapVars>>

(***************************************************************************)
(* CodeGenerator: operations                                               *)
(***************************************************************************)
\* mutant: generate does not reset this.labelCounter
GenerateEnterKeepingCounter(a, symbolTable) ==
    /\ genAst' = a
    /\ genSymbolTable' = symbolTable
    /\ labelCounter' = labelCounter
    /\ genResult' = addInstruction(
                        initializeSymbolTable(NewCodeGenerationResult, symbolTable, 0),
                        "PUSH", Value(0))
    /\ work' = <<NodeTask(a), ExitTask>>
    /\ gpc' = "walk"
    /\ generateCalls' = generateCalls + 1
    /\ UNCHANGED optimizeCode
    /\ UNCHANGED <<optVars, compilerVars, optimizeCalls, heapVars>>

\* generate(ast, symbolTable) up to the call of generateNode(ast)
GenerateEnter(a, symbolTable) ==
    /\ genAst' = a
    /\ genSymbolTable' = symbolTable
    /\ labelCounter' = 0
    /\ genResult' = addInstruction(
                        initializeSymbolTable(NewCodeGenerationResult, symbolTable, 0),
                        "PUSH", Value(0))
    /\ work' = <<NodeTask(a), ExitTask>>
    /\ gpc' = "walk"
    /\ generateCalls' = generateCalls + 1
    /\ UNCHANGED optimizeCode
    /\ UNCHANGED <<optVars, compilerVars, optimizeCalls, heapVars>>

\* if (!node) return
GenerateNothing ==
    /\ AtNode("null")
    /\ Continue(genResult, <<>>)

\* for (const statement of node.body) this.generateNode(statement)
BodyTasks(body) == [i \in 1..Len(body) |-> NodeTask(body[i])]

GenerateProgram ==
    /\ AtNode("Program")
    /\ Continue(genResult, BodyTasks(Top.node.body))

GenerateBlockStatement ==
    /\ AtNode("BlockStatement")
    /\ Continue(genResult, BodyTasks(Top.node.body))

\* per declaration with an initializer: the initializer, then the STORE
RECURSIVE DeclarationTasks(_)
DeclarationTasks(declarations) ==
    IF declarations = <<>> THEN <<>>
    ELSE LET d == Head(declarations)
         IN  (IF d.init.type # "null"
              THEN <<NodeTask(d.init), DeclarationStoreTask(d.id.name)>>
              ELSE <<>>)
             \o DeclarationTasks(Tail(declarations))

GenerateVariableDeclaration ==
    /\ AtNode("VariableDeclaration")
    /\ Continue(genResult, DeclarationTasks(Top.node.declarations))

\* the STORE of a declaration: the operand is whatever the lookup gives
StoreDeclaration ==
    /\ AtTask("declarationStore")
    /\ Continue(addInstruction(genResult, "STORE",
                               MapGet(genResult.symbolTable, Top.name)),
                <<>>)

GenerateAssignment ==
    /\ AtNode("AssignmentExpression")
    /\ Continue(genResult, <<NodeTask(Top.node.right),
                             AssignmentStoreTask(Top.node.left)>>)

\* mutant: the message does not carry the name
UndefinedVariableNameless(name) == <<"undefined variable: ">>

\* "未定义的变量: <name>"
UndefinedVariable(name) == <<"undefined variable: ", name>>

\* the STORE of an assignment to an Identifier; other targets: nothing
StoreAssignment ==
    /\ AtTask("assignmentStore")
    /\ IF Top.left.type = "Identifier"
       THEN LET address == MapGet(genResult.symbolTable, Top.left.name)
            IN  IF address # Undefined
                THEN Continue(addInstruction(genResult, "STORE", address), <<>>)
                ELSE Throw(UndefinedVariable(Top.left.name))
       ELSE Continue(genResult, <<>>)

\* mutant: the right operand is generated before the left one
BinaryTasksRightFirst(node) ==
    <<NodeTask(node.right), NodeTask(node.left), BinaryOperatorTask(node.operator)>>

\* generateNode(node.left); generateNode(node.right); then the switch
BinaryTasks(node) ==
    <<NodeTask(node.left), NodeTask(node.right), BinaryOperatorTask(node.operator)>>

GenerateBinaryExpression ==
    /\ AtNode("BinaryExpression")
    /\ Continue(genResult, BinaryTasks(Top.node))

BinaryOperators ==
    {"+", "-", "*", "/", "%", "==", "!=", "<", "<=", ">", ">=", "&&", "||"}

\* the switch of generateBinaryExpression
BinaryInstruction(operator) ==
    CASE operator = "+" -> "ADD"
      [] operator = "-" -> "SUB"
      [] operator = "*" -> "MUL"
      [] operator = "/" -> "DIV"
      [] operator = "%" -> "MOD"
      [] operator = "==" -> "EQ"
      [] operator = "!=" -> "NE"
      [] operator = "<" -> "LT"
      [] operator = "<=" -> "LE"
      [] operator = ">" -> "GT"
      [] operator = ">=" -> "GE"
      [] operator = "&&" -> "AND"
      [] operator = "||" -> "OR"

\* "不支持的二元运算符: <operator>"
UnsupportedBinaryOperator(operator) == <<"unsupported binary operator: ", operator>>

EmitBinaryOperator ==
    /\ AtTask("binaryOperator")
    /\ IF Top.operator \in BinaryOperators
       THEN Continue(addInstruction(genResult, BinaryInstruction(Top.operator),
                                    NoOperand), <<>>)
       ELSE Throw(UnsupportedBinaryOperator(Top.operator))

GenerateUnaryExpression ==
    /\ AtNode("UnaryExpression")
    /\ Continue(genResult, <<NodeTask(Top.node.argument),
                             UnaryOperatorTask(Top.node.operator)>>)

UnaryOperators == {"-", "!"}

UnaryInstruction(operator) ==
    CASE operator = "-" -> "NEG"
      [] operator = "!" -> "NOT"

\* "不支持的一元运算符: <operator>"
UnsupportedUnaryOperator(operator) == <<"unsupported unary operator: ", operator>>

EmitUnaryOperator ==
    /\ AtTask("unaryOperator")
    /\ IF Top.operator \in UnaryOperators
       THEN Continue(addInstruction(genResult, UnaryInstruction(Top.operator),
                                    NoOperand), <<>>)
       ELSE Throw(UnsupportedUnaryOperator(Top.operator))

GenerateLiteral ==
    /\ AtNode("Literal")
    /\ Continue(addInstruction(genResult, "LOAD", Value(Top.node.value)), <<>>)

GenerateIdentifier ==
    /\ AtNode("Identifier")
    /\ LET address == MapGet(genResult.symbolTable, Top.node.name)
       IN  IF address # Undefined
           THEN Continue(addInstruction(genResult, "LOAD_VAR", address), <<>>)
           ELSE Throw(UndefinedVariable(Top.node.name))

\* mutant: the else label is placed after the alternate
IfTasksElseAfterAlternate(node, elseLabel, endLabel) ==
    <<NodeTask(node.test),
      EmitTask("JZ", elseLabel),
      NodeTask(node.consequent),
      EmitTask("JMP", endLabel)>>
    \o (IF node.alternate.type # "null" THEN <<NodeTask(node.alternate)>> ELSE <<>>)
    \o <<LabelTask(elseLabel), LabelTask(endLabel)>>

\* the steps of generateIfStatement after the two generateLabel calls
IfTasks(node, elseLabel, endLabel) ==
    <<NodeTask(node.test),
      EmitTask("JZ", elseLabel),
      NodeTask(node.consequent),
      EmitTask("JMP", endLabel),
      LabelTask(elseLabel)>>
    \o (IF node.alternate.type # "null" THEN <<NodeTask(node.alternate)>> ELSE <<>>)
    \o <<LabelTask(endLabel)>>

GenerateIfStatement ==
    /\ AtNode("IfStatement")
    /\ labelCounter' = labelCounter + 2
    /\ genResult' = genResult
    /\ work' = IfTasks(Top.node, generateLabel("else", labelCounter),
                       generateLabel("endif", labelCounter + 1)) \o Rest
    /\ UNCHANGED <<optimizeCode, gpc, genAst, genSymbolTable>>
    /\ UNCHANGED <<optVars, compilerVars, callVars, heapVars>>

\* mutant: the loop label is placed after the condition
WhileTasksLoopAfterCondition(node, loopLabel, endLabel) ==
    <<NodeTask(node.test),
      LabelTask(loopLabel),
      EmitTask("JZ", endLabel),
      NodeTask(node.body),
      EmitTask("JMP", loopLabel),
      LabelTask(endLabel)>>

\* the steps of generateWhileStatement after the two generateLabel calls
WhileTasks(node, loopLabel, endLabel) ==
    <<LabelTask(loopLabel),
      NodeTask(node.test),
      EmitTask("JZ", endLabel),
      NodeTask(node.body),
      EmitTask("JMP", loopLabel),
      LabelTask(endLabel)>>

GenerateWhileStatement ==
    /\ AtNode("WhileStatement")
    /\ labelCounter' = labelCounter + 2
    /\ genResult' = genResult
    /\ work' = WhileTasks(Top.node, generateLabel("loop", labelCounter),
                          generateLabel("endloop", labelCounter + 1)) \o Rest
    /\ UNCHANGED <<optimizeCode, gpc, genAst, genSymbolTable>>
    /\ UNCHANGED <<optVars, compilerVars, callVars, heapVars>>

GenerateExpressionStatement ==
    /\ AtNode("ExpressionStatement")
    /\ Continue(genResult, <<NodeTask(Top.node.expression),
                             EmitTask("POP", NoOperand)>>)

GeneratePrintStatement ==
    /\ AtNode("PrintStatement")
    /\ Continue(genResult, <<NodeTask(Top.node.expression),
                             EmitTask("PRINT", NoOperand)>>)

\* the node types with a case in the switch of generateNode
GeneratedTypes ==
    {"Program", "VariableDeclaration", "AssignmentExpression", "BinaryExpression",
     "UnaryExpression", "Literal", "Identifier", "IfStatement", "WhileStatement",
     "BlockStatement", "ExpressionStatement", "PrintStatement"}

\* mutant: the default case pushes nothing
UnsupportedNodeSilent(res, type) == res

\* the default case: warnings.push of "不支持的节点类型: <type>"
UnsupportedNode(res, type) ==
    [res EXCEPT !.warnings = Append(@, [type |-> "unsupported_node",
                                        message |-> <<"unsupported node type: ",
                                                      type>>])]

\* default: a warning and nothing else
GenerateUnsupported ==
    /\ gpc = "walk" /\ work # <<>> /\ Top.t = "node"
    /\ Top.node.type \notin GeneratedTypes \cup {"null"}
    /\ Continue(UnsupportedNode(genResult, Top.node.type), <<>>)

\* an addInstruction that follows the generateNode calls of a method
EmitInstruction ==
    /\ AtTask("emit")
    /\ Continue(addInstruction(genResult, Top.opcode, Top.operand), <<>>)

PlaceLabel ==
    /\ AtTask("label")
    /\ Continue(addLabel(genResult, Top.name), <<>>)

\* generate after generateNode(ast): HALT, the assembly text, the peephole
\* pass, success
GenerateReturn ==
    /\ AtTask("exit")
    /\ genResult' =
          [optimizeInstructions(
               generateAssembly(addInstruction(genResult, "HALT", NoOperand)),
               optimizeCode)
           EXCEPT !.success = TRUE]
    /\ work' = <<>>
    /\ gpc' = "done"
    /\ UNCHANGED <<optimizeCode, labelCounter, genAst, genSymbolTable>>
    /\ UNCHANGED <<optVars, compilerVars, callVars, heapVars>>

\* the instance is dropped and a new CodeGenerator is constructed
NewCodeGenerator ==
    /\ gpc = "done"
    /\ optimizeCode' \in BOOLEAN
    /\ labelCounter' = 0
    /\ genResult' = Null
    /\ gpc' = "idle"
    /\ genAst' = Null
    /\ genSymbolTable' = <<>>
    /\ work' = <<>>
    /\ generateCalls' = 0
    /\ UNCHANGED <<optVars, compilerVars, optimizeCalls, heapVars>>

(***************************************************************************)
(* CodeGenerator: inputs                                                   *)
(***************************************************************************)
\* x is declared in the symbol tables below, q nowhere
GenLeaves ==
    {Literal(5), Literal(3), NumericLiteral(<<"8">>), Identifier("x"),
     Identifier("q")}

\* "**" and "~" stand for the operators without a case in the switches
GenExpr1 ==
    BinaryOver(BinaryOperators \cup {"**"}, GenLeaves, GenLeaves)
        \cup {UnaryExpression(op, a) : op \in UnaryOperators \cup {"~"},
                                       a \in GenLeaves}

GenInner1 ==
    BinaryOver({"*", "-"}, {Literal(5), Identifier("x")},
               {Literal(3), Identifier("q")})
GenExpr2 ==
    BinaryOver({"+"}, GenInner1 \cup {Literal(5)}, GenInner1 \cup {Literal(5)})
        \cup {UnaryExpression("-", e) : e \in GenInner1}

GenAssignments ==
    {AssignmentExpression(Identifier(n), e) :
        n \in {"x", "q"},
        e \in GenLeaves \cup {BinaryExpression("+", Identifier("x"), Literal(5))}}
        \cup {AssignmentExpression(Literal(5), Literal(3))}

SimpleStatements ==
    {ExpressionStatement(Literal(5)),
     ExpressionStatement(NumericLiteral(<<"8">>)),
     ExpressionStatement(Identifier("x")),
     ExpressionStatement(Identifier("q")),
     ExpressionStatement(AssignmentExpression(Identifier("x"), Literal(5))),
     ExpressionStatement([type |-> "CallExpression"]),
     PrintStatement(Identifier("x")),
     AssignmentExpression(Identifier("x"),
                          BinaryExpression("+", Identifier("x"), Literal(5))),
     VariableDeclaration(<<VariableDeclarator("x", Literal(5))>>),
     VariableDeclaration(<<VariableDeclarator("z", Literal(3))>>),
     VariableDeclaration(<<VariableDeclarator("y", Null),
                           VariableDeclarator("x", Identifier("z"))>>)}

InnerStatements ==
    {ExpressionStatement(Literal(5)),
     AssignmentExpression(Identifier("x"), Literal(5)),
     PrintStatement(Identifier("x"))}

Tests == {Identifier("x"), Literal(5)}

ControlStatements ==
    {IfStatement(t, c, a) : t \in Tests, c \in InnerStatements,
                            a \in InnerStatements \cup {Null}}
        \cup {WhileStatement(t, b) : t \in Tests, b \in InnerStatements}

Blocks == {BlockStatement(body) : body \in SeqsUpTo(InnerStatements, MaxBody)}

NestedStatements ==
    {WhileStatement(Identifier("x"), s) : s \in ControlStatements \cup Blocks}
        \cup {IfStatement(Identifier("x"), s, Null) : s \in ControlStatements}
        \cup {IfStatement(Identifier("x"), ExpressionStatement(Literal(5)), s) :
                 s \in ControlStatements}

SiblingStatements ==
    {IfStatement(Identifier("x"), PrintStatement(Identifier("x")), Null),
     WhileStatement(Identifier("x"), ExpressionStatement(Literal(5))),
     ExpressionStatement(Literal(5)),
     ExpressionStatement([type |-> "CallExpression"])}

GenPrograms ==
    {Program(body) : body \in SeqsUpTo(SimpleStatements, MaxBody)}
        \cup {Program(<<s>>) : s \in ControlStatements \cup Blocks
                                     \cup NestedStatements}
        \cup {Program(<<s, t>>) : s \in SiblingStatements, t \in SiblingStatements}

\* trees as Optimizer.optimize returns them: one pass with the default
\* options over trees whose literals fold
OptimizerOutputs ==
    {performOptimizationPass(t, [result |-> NewOptimizationResult,
                                 optimizationCount |-> 0],
                             DefaultOptions).node :
        t \in {BinaryExpression("+", createNumericLiteral(1), createNumericLiteral(2)),
               Program(<<PrintStatement(createNumericLiteral(1))>>),
               Program(<<PrintStatement(
                   BinaryExpression("*", createNumericLiteral(2),
                                    createNumericLiteral(2)))>>)}}

GenerateInputs ==
    GenLeaves \cup GenExpr1 \cup GenExpr2 \cup GenAssignments \cup GenPrograms
        \cup OptimizerOutputs \cup {Null}

SymbolEntry(name, type) == [name |-> name, type |-> type]

\* the symbol tables of the semantic analyzer given to generate; the empty
\* one also stands for a call without symbol table
SymbolTables ==
    {<<>>,
     <<SymbolEntry("x", "variable")>>,
     <<SymbolEntry("f", "function"), SymbolEntry("y", "variable"),
       SymbolEntry("x", "variable")>>}

Generate ==
    /\ gpc = "idle"
    /\ \E a \in GenerateInputs, symbolTable \in SymbolTables :
           GenerateEnter(a, symbolTable)

GenNext ==
    \/ Generate
    \/ GenerateNothing
    \/ GenerateProgram
    \/ GenerateBlockStatement
    \/ GenerateVariableDeclaration
    \/ StoreDeclaration
    \/ GenerateAssignment
    \/ StoreAssignment
    \/ GenerateBinaryExpression
    \/ EmitBinaryOperator
    \/ GenerateUnaryExpression
    \/ EmitUnaryOperator
    \/ GenerateLiteral
    \/ GenerateIdentifier
    \/ GenerateIfStatement
    \/ GenerateWhileStatement
    \/ GenerateExpressionStatement
    \/ GeneratePrintStatement
    \/ GenerateUnsupported
    \/ EmitInstruction
    \/ PlaceLabel
    \/ GenerateReturn
    \/ NewCodeGenerator

(***************************************************************************)
(* CodeGenerator: properties                                               *)
(***************************************************************************)
GenerateDone == gpc = "done"
Succeeded == GenerateDone /\ genResult.success
Failed == GenerateDone /\ ~genResult.success

\* the instruction stream without the addresses
Stream(res) ==
    [i \in 1..Len(res.instructions) |->
        [opcode |-> res.instructions[i].opcode,
         operand |-> res.instructions[i].operand]]
Instr(opcode, operand) == [opcode |-> opcode, operand |-> operand]

\* the number of literal nodes, of either kind, at the places generate
\* walks: everything but the target of an assignment and the declared name
RECURSIVE LiteralNodes(_)
RECURSIVE LiteralNodesOfAll(_)
LiteralNodesOfAll(nodes) ==
    IF nodes = <<>> THEN 0
    ELSE LiteralNodes(Head(nodes)) + LiteralNodesOfAll(Tail(nodes))
LiteralNodes(node) ==
    CASE node.type \in {"Literal", "NumericLiteral"} -> 1
      [] node.type = "BinaryExpression" ->
             LiteralNodes(node.left) + LiteralNodes(node.right)
      [] node.type = "UnaryExpression" -> LiteralNodes(node.argument)
      [] node.type \in {"ExpressionStatement", "PrintStatement"} ->
             LiteralNodes(node.expression)
      [] node.type \in {"Program", "BlockStatement"} -> LiteralNodesOfAll(node.body)
      [] node.type = "AssignmentExpression" -> LiteralNodes(node.right)
      [] node.type = "VariableDeclaration" ->
             LiteralNodesOfAll([i \in 1..Len(node.declarations) |->
                                   node.declarations[i].init])
      [] node.type = "IfStatement" ->
             LiteralNodes(node.test) + LiteralNodes(node.consequent)
                 + LiteralNodes(node.alternate)
      [] node.type = "WhileStatement" ->
             LiteralNodes(node.test) + LiteralNodes(node.body)
      [] OTHER -> 0

LoadCount(res) ==
    Cardinality({i \in 1..Len(res.instructions) : res.instructions[i].opcode = "LOAD"})

LiteralWarning(res) ==
    \E i \in 1..Len(res.warnings) :
        /\ res.warnings[i].type = "unsupported_node"
        /\ res.warnings[i].message[2] \in {"Literal", "NumericLiteral"}

\* C8: a successful generate has emitted one LOAD per literal node of its
\* tree, whether the node's kind is Literal or NumericLiteral, and has
\* recorded no unsupported-node warning for a literal
C8_OneLoadPerLiteral ==
    Succeeded =>
        /\ LoadCount(genResult) = LiteralNodes(genAst)
        /\ ~LiteralWarning(genResult)

\* the opcode of each supported binary and unary operator
OpcodeOf ==
    [operator \in BinaryOperators |->
        CASE operator = "+" -> "ADD"  [] operator = "-" -> "SUB"
          [] operator = "*" -> "MUL"  [] operator = "/" -> "DIV"
          [] operator = "%" -> "MOD"  [] operator = "==" -> "EQ"
          [] operator = "!=" -> "NE"  [] operator = "<" -> "LT"
          [] operator = "<=" -> "LE"  [] operator = ">" -> "GT"
          [] operator = ">=" -> "GE"  [] operator = "&&" -> "AND"
          [] operator = "||" -> "OR"]

\* the instructions of an expression of a successful run, given the
\* variable table: operands first, left to right, then the operator
RECURSIVE ExprCode(_, _)
ExprCode(e, table) ==
    CASE e.type = "Literal" -> <<Instr("LOAD", Value(e.value))>>
      [] e.type = "Identifier" -> <<Instr("LOAD_VAR", MapGet(table, e.name))>>
      [] e.type = "BinaryExpression" ->
             ExprCode(e.left, table) \o ExprCode(e.right, table)
                 \o <<Instr(OpcodeOf[e.operator], NoOperand)>>
      [] e.type = "UnaryExpression" ->
             ExprCode(e.argument, table)
                 \o <<Instr(IF e.operator = "-" THEN "NEG" ELSE "NOT", NoOperand)>>
      [] e.type = "AssignmentExpression" ->
             ExprCode(e.right, table)
                 \o (IF e.left.type = "Identifier"
                     THEN <<Instr("STORE", MapGet(table, e.left.name))>> ELSE <<>>)
      [] OTHER -> <<>>

\* C9: a successful generate of BinaryExpression(op, l, r) gives the entry
\* PUSH, the instructions of l, the instructions of r, the opcode of op and
\* HALT; the stream of every successful generate ends with HALT
C9_BinaryLowering ==
    Succeeded =>
        /\ Stream(genResult)[Len(genResult.instructions)] = Instr("HALT", NoOperand)
        /\ genAst.type = "BinaryExpression" =>
               Stream(genResult) =
                   <<Instr("PUSH", Value(0))>>
                       \o ExprCode(genAst.left, genResult.symbolTable)
                       \o ExprCode(genAst.right, genResult.symbolTable)
                       \o <<Instr(OpcodeOf[genAst.operator], NoOperand),
                            Instr("HALT", NoOperand)>>

\* BinaryExpression(+, Literal 5, Literal 3) has given LOAD 5, LOAD 3, ADD, HALT
C9_Witness ==
    /\ Succeeded
    /\ genAst = BinaryExpression("+", Literal(5), Literal(3))
    /\ Stream(genResult) = <<Instr("PUSH", Value(0)), Instr("LOAD", Value(5)),
                             Instr("LOAD", Value(3)), Instr("ADD", NoOperand),
                             Instr("HALT", NoOperand)>>

\* generate is at a reference to, or at the store to, a name the variable
\* table does not hold
AtUndefinedName(name) ==
    /\ \/ AtNode("Identifier") /\ Top.node.name = name
       \/ AtTask("assignmentStore") /\ Top.left.type = "Identifier"
                                    /\ Top.left.name = name
    /\ MapGet(genResult.symbolTable, name) = Undefined

AtUnsupportedOperator ==
    \/ AtTask("binaryOperator") /\ Top.operator \notin BinaryOperators
    \/ AtTask("unaryOperator") /\ Top.operator \notin {"-", "!"}

ErrorNames(res, name) ==
    \E i \in 1..Len(res.errors) :
        \E j \in 1..Len(res.errors[i].message) : res.errors[i].message[j] = name

\* C10: the step of generate at an undefined name ends the run with
\* success = false and an error whose message contains the name; the step at
\* an unsupported binary or unary operator ends it with success = false and
\* a non-empty error list
C10_FatalErrors ==
    [][/\ \A name \in {"x", "q", "z"} :
              AtUndefinedName(name) =>
                  /\ gpc' = "done"
                  /\ ~genResult'.success
                  /\ ErrorNames(genResult', name)
       /\ AtUnsupportedOperator =>
              /\ gpc' = "done"
              /\ ~genResult'.success
              /\ genResult'.errors # <<>>]_vars

\* Identifier("q") with an empty variable table has failed with one error
\* naming q
C10_Witness ==
    /\ Failed
    /\ genAst = Identifier("q")
    /\ genSymbolTable = <<>>
    /\ Len(genResult.errors) = 1
    /\ genResult.errors[1].type = "generation_error"
    /\ ErrorNames(genResult, "q")

\* the tree declares a name with a literal initializer and then refers to it
DeclaredThenUsed(t) ==
    /\ t.type = "Program"
    /\ Len(t.body) = 2
    /\ t.body[1].type = "VariableDeclaration"
    /\ Len(t.body[1].declarations) = 1
    /\ t.body[1].declarations[1].init.type = "Literal"
    /\ t.body[2] = ExpressionStatement(t.body[1].declarations[1].id)

\* C11: every STORE emitted carries an address, also the STORE of a
\* declaration whose name the symbol table did not seed, and a run that
\* declares a name and then refers to it succeeds, the LOAD_VAR of the
\* reference carrying the address of the STORE
C11_DeclarationAddressed ==
    /\ gpc \in {"walk", "done"} =>
           \A i \in 1..Len(genResult.instructions) :
               genResult.instructions[i].opcode = "STORE"
                   => genResult.instructions[i].operand.kind = "address"
    /\ (GenerateDone /\ DeclaredThenUsed(genAst)) =>
           /\ genResult.success
           /\ \E i, j \in 1..Len(genResult.instructions) :
                  /\ i < j
                  /\ genResult.instructions[i].opcode = "STORE"
                  /\ genResult.instructions[j].opcode = "LOAD_VAR"
                  /\ genResult.instructions[i].operand
                         = genResult.instructions[j].operand

\* the lowering of a statement placed at address base, n labels being in
\* use: its instructions, the labels it places (in the order placed) and the
\* number of labels in use after it
LoweredAs(code, labels, n) == [code |-> code, labels |-> labels, n |-> n]
LabelAt(name, address) == [key |-> name, value |-> address]

\* the initializer and the STORE of every declaration that has one
RECURSIVE DeclarationCode(_, _)
DeclarationCode(declarations, table) ==
    IF declarations = <<>> THEN <<>>
    ELSE (IF Head(declarations).init.type # "null"
          THEN ExprCode(Head(declarations).init, table)
                   \o <<Instr("STORE", MapGet(table, Head(declarations).id.name))>>
          ELSE <<>>)
         \o DeclarationCode(Tail(declarations), table)

RECURSIVE Lowered(_, _, _, _)
RECURSIVE LoweredAll(_, _, _, _)
LoweredAll(body, table, n, base) ==
    IF body = <<>> THEN LoweredAs(<<>>, <<>>, n)
    ELSE LET h == Lowered(Head(body), table, n, base)
             t == LoweredAll(Tail(body), table, h.n, base + Len(h.code))
         IN  LoweredAs(h.code \o t.code, h.labels \o t.labels, t.n)
Lowered(s, table, n, base) ==
    CASE s.type \in {"Program", "BlockStatement"} ->
             LoweredAll(s.body, table, n, base)
      [] s.type = "ExpressionStatement" ->
             LoweredAs(ExprCode(s.expression, table) \o <<Instr("POP", NoOperand)>>,
                       <<>>, n)
      [] s.type = "PrintStatement" ->
             LoweredAs(ExprCode(s.expression, table) \o <<Instr("PRINT", NoOperand)>>,
                       <<>>, n)
      [] s.type = "VariableDeclaration" ->
             LoweredAs(DeclarationCode(s.declarations, table), <<>>, n)
      [] s.type = "IfStatement" ->
             LET elseLabel == LabelName("else", n)
                 endLabel  == LabelName("endif", n + 1)
                 test      == ExprCode(s.test, table)
                 thenBase  == base + Len(test) + 1
                 then      == Lowered(s.consequent, table, n + 2, thenBase)
                 elseBase  == thenBase + Len(then.code) + 1
                 else      == Lowered(s.alternate, table, then.n, elseBase)
             IN  LoweredAs(test \o <<Instr("JZ", elseLabel)>> \o then.code
                               \o <<Instr("JMP", endLabel)>> \o else.code,
                           then.labels \o <<LabelAt(elseLabel, elseBase)>>
                               \o else.labels
                               \o <<LabelAt(endLabel,
                                            elseBase + Len(else.code))>>,
                           else.n)
      [] s.type = "WhileStatement" ->
             LET loopLabel == LabelName("loop", n)
                 endLabel  == LabelName("endloop", n + 1)
                 test      == ExprCode(s.test, table)
                 bodyBase  == base + Len(test) + 1
                 body      == Lowered(s.body, table, n + 2, bodyBase)
                 endBase   == bodyBase + Len(body.code) + 1
             IN  LoweredAs(test \o <<Instr("JZ", endLabel)>> \o body.code
                               \o <<Instr("JMP", loopLabel)>>,
                           <<LabelAt(loopLabel, base)>> \o body.labels
                               \o <<LabelAt(endLabel, endBase)>>,
                           body.n)
      [] OTHER -> LoweredAs(ExprCode(s, table), <<>>, n)

\* the successful run of a Program of the one statement s gave the entry
\* PUSH, the lowering of s and HALT, and the labels of the lowering
LoweredProgramOf(s) ==
    LET l == Lowered(s, genResult.symbolTable, 0, 1)
    IN  /\ Stream(genResult)
               = <<Instr("PUSH", Value(0))>> \o l.code \o <<Instr("HALT", NoOperand)>>
        /\ genResult.labelTable = l.labels

OneStatement(type) ==
    /\ genAst.type = "Program"
    /\ Len(genAst.body) = 1
    /\ genAst.body[1].type = type

\* C12: a successful generate of an IfStatement gives the code of the test,
\* JZ to the else label, the code of the consequent, JMP to the endif
\* label, then the code of the alternate if there is one; the else label
\* holds the address after the JMP and the endif label the address after
\* the alternate (the same address when there is no alternate)
C12_IfLowering ==
    (Succeeded /\ OneStatement("IfStatement")) => LoweredProgramOf(genAst.body[1])

\* if (x) print x else x = 5, x at address 0: else_0 at 6, endif_1 at 8
C12_Witness ==
    /\ Succeeded
    /\ genAst = Program(<<IfStatement(Identifier("x"), PrintStatement(Identifier("x")),
                             AssignmentExpression(Identifier("x"), Literal(5)))>>)
    /\ genSymbolTable = <<SymbolEntry("x", "variable")>>
    /\ Stream(genResult)
           = <<Instr("PUSH", Value(0)), Instr("LOAD_VAR", Address(0)),
               Instr("JZ", LabelName("else", 0)), Instr("LOAD_VAR", Address(0)),
               Instr("PRINT", NoOperand), Instr("JMP", LabelName("endif", 1)),
               Instr("LOAD", Value(5)), Instr("STORE", Address(0)),
               Instr("HALT", NoOperand)>>
    /\ genResult.labelTable = <<LabelAt(LabelName("else", 0), 6), LabelAt(LabelName("endif", 1), 8)>>

\* an IfStatement without alternate: both labels hold the same address
C12_WitnessNoAlternate ==
    /\ Succeeded
    /\ genAst = Program(<<IfStatement(Literal(5), ExpressionStatement(Literal(5)),
                                      Null)>>)
    /\ genResult.labelTable = <<LabelAt(LabelName("else", 0), 6), LabelAt(LabelName("endif", 1), 6)>>

\* C13: a successful generate of a WhileStatement places the loop label at
\* the first instruction of the test and gives the code of the test, JZ to
\* the endloop label, the code of the body and JMP to the loop label; the
\* endloop label holds the address after that JMP
C13_WhileLowering ==
    (Succeeded /\ OneStatement("WhileStatement")) => LoweredProgramOf(genAst.body[1])

\* while (x) print x, x at address 0: loop_0 at 1, endloop_1 at 6
C13_Witness ==
    /\ Succeeded
    /\ genAst = Program(<<WhileStatement(Identifier("x"),
                                         PrintStatement(Identifier("x")))>>)
    /\ genSymbolTable = <<SymbolEntry("x", "variable")>>
    /\ Stream(genResult)
           = <<Instr("PUSH", Value(0)), Instr("LOAD_VAR", Address(0)),
               Instr("JZ", LabelName("endloop", 1)), Instr("LOAD_VAR", Address(0)),
               Instr("PRINT", NoOperand), Instr("JMP", LabelName("loop", 0)),
               Instr("HALT", NoOperand)>>
    /\ genResult.labelTable
           = <<LabelAt(LabelName("loop", 0), 1), LabelAt(LabelName("endloop", 1), 6)>>

\* the number of if and while statements generate walks in a tree
RECURSIVE ControlCount(_)
RECURSIVE ControlCountOfAll(_)
ControlCountOfAll(nodes) ==
    IF nodes = <<>> THEN 0
    ELSE ControlCount(Head(nodes)) + ControlCountOfAll(Tail(nodes))
ControlCount(node) ==
    CASE node.type \in {"Program", "BlockStatement"} -> ControlCountOfAll(node.body)
      [] node.type = "IfStatement" ->
             1 + ControlCount(node.consequent) + ControlCount(node.alternate)
      [] node.type = "WhileStatement" -> 1 + ControlCount(node.body)
      [] OTHER -> 0

LabelKeys(res) == {res.labelTable[i].key : i \in 1..Len(res.labelTable)}

\* C14: during a run no label is placed twice (the label table has one entry
\* for each addLabel call), and in every successful outcome each JZ and JMP
\* operand is a key of the label table and labelCount, the size of the label
\* table and twice the number of if and while statements of the tree agree
C14_LabelTable ==
    /\ gpc \in {"walk", "done"} =>
           /\ genResult.statistics.labelCount = Len(genResult.labelTable)
           /\ \A i, j \in 1..Len(genResult.labelTable) :
                  genResult.labelTable[i].key = genResult.labelTable[j].key => i = j
    /\ Succeeded =>
           /\ \A i \in 1..Len(genResult.instructions) :
                  genResult.instructions[i].opcode \in {"JZ", "JMP"}
                      => genResult.instructions[i].operand \in LabelKeys(genResult)
           /\ Len(genResult.labelTable) = 2 * ControlCount(genAst)

\* a while inside a while: four labels, four jumps
C14_Witness ==
    /\ Succeeded
    /\ ControlCount(genAst) = 2
    /\ genAst.body[1].type = "WhileStatement"
    /\ genAst.body[1].body.type = "WhileStatement"
    /\ genResult.statistics.labelCount = 4
    /\ Cardinality(LabelKeys(genResult)) = 4

(***************************************************************************)
(* optimizeInstructions on a stream built by addInstruction calls          *)
(*                                                                         *)
(* A caller fills a fresh CodeGenerationResult by addInstruction and then  *)
(* calls optimizeInstructions on it, so that the peephole pass sees        *)
(* streams generate never produces (generate emits one PUSH only).         *)
(***************************************************************************)
MaxStream == 4

DirectInstructions ==
    {Instr("PUSH", Value(0)), Instr("PUSH", Value(1)), Instr("POP", NoOperand),
     Instr("LOAD", Value(5))}

\* this.result = new CodeGenerationResult()
NewResult ==
    /\ gpc = "idle"
    /\ genResult' = NewCodeGenerationResult
    /\ gpc' = "direct"
    /\ UNCHANGED <<optimizeCode, labelCounter, genAst, genSymbolTable, work>>
    /\ UNCHANGED <<optVars, compilerVars, callVars, heapVars>>

AddInstructionCall ==
    /\ gpc = "direct"
    /\ Len(genResult.instructions) < MaxStream
    /\ \E ins \in DirectInstructions :
           genResult' = addInstruction(genResult, ins.opcode, ins.operand)
    /\ UNCHANGED <<optimizeCode, labelCounter, gpc, genAst, genSymbolTable, work>>
    /\ UNCHANGED <<optVars, compilerVars, callVars, heapVars>>

OptimizeInstructionsCall ==
    /\ gpc = "direct"
    /\ genResult' = optimizeInstructions(genResult, optimizeCode)
    /\ gpc' = "optimized"
    /\ UNCHANGED <<optimizeCode, labelCounter, genAst, genSymbolTable, work>>
    /\ UNCHANGED <<optVars, compilerVars, callVars, heapVars>>

PeepNext ==
    \/ NewResult
    \/ AddInstructionCall
    \/ OptimizeInstructionsCall

\* the instruction at k (1-based) is the PUSH or the POP of a PUSH
\* immediately followed by a POP
IsPushOfPair(s, k) ==
    k < Len(s) /\ s[k].opcode = "PUSH" /\ s[k + 1].opcode = "POP"
InPair(s, k) == IsPushOfPair(s, k) \/ (k > 1 /\ IsPushOfPair(s, k - 1))
PairsBefore(s, k) == Cardinality({m \in 1..(k - 1) : IsPushOfPair(s, m)})

\* the stream without its PUSH, POP pairs
RECURSIVE WithoutPairs(_)
WithoutPairs(s) ==
    IF Len(s) < 2 THEN s
    ELSE IF IsPushOfPair(s, 1) THEN WithoutPairs(SubSeq(s, 3, Len(s)))
         ELSE <<Head(s)>> \o WithoutPairs(Tail(s))

\* C15: optimizeInstructions deletes the PUSH and the POP of every PUSH
\* immediately followed by a POP and nothing else; every other instruction
\* keeps its opcode, its operand and its place among the others, and its
\* address goes down by two for each pair before it
C15_PeepholeDeletion ==
    [][(gpc = "direct" /\ gpc' = "optimized" /\ optimizeCode) =>
          /\ Stream(genResult') = WithoutPairs(Stream(genResult))
          /\ \A k \in 1..Len(genResult.instructions) :
                 ~InPair(genResult.instructions, k) =>
                     \E j \in 1..Len(genResult'.instructions) :
                         genResult'.instructions[j]
                             = [genResult.instructions[k] EXCEPT
                                   !.address = @ - 2 * PairsBefore(genResult.instructions, k)]
      ]_vars

\* LOAD, PUSH, POP, LOAD went in (four addInstruction calls): the two LOADs
\* are left, at the addresses 0 and 1
C15_Witness ==
    /\ gpc = "optimized"
    /\ optimizeCode
    /\ genResult.statistics.instructionCount = 4
    /\ genResult.instructions
           = <<[address |-> 0, opcode |-> "LOAD", operand |-> Value(5)],
               [address |-> 1, opcode |-> "LOAD", operand |-> Value(5)]>>

\* C16: after optimizeInstructions no PUSH is immediately followed by a POP
C16_NoPushPopLeft ==
    (gpc = "optimized" /\ optimizeCode) =>
        \A k \in 1..Len(genResult.instructions) :
            ~IsPushOfPair(genResult.instructions, k)

IsInstructionLine(l) == l.line = "instruction"

\* C17: in every successful outcome the instruction lines of the assembly
\* are those of the instructions of the outcome, in their order, each with
\* the address of its instruction padded to four digits
C17_AssemblyOfFinalStream ==
    Succeeded =>
        SelectSeq(genResult.assembly, IsInstructionLine)
            = [i \in 1..Len(genResult.instructions) |->
                  [line |-> "instruction",
                   address |-> PadStart(NatToText(genResult.instructions[i].address),
                                        AddressWidth),
                   opcode |-> genResult.instructions[i].opcode,
                   operand |-> genResult.instructions[i].operand]]

\* C18: whenever there is a result (during a run of generate, in its
\* outcome, successful or failed, and after optimizeInstructions) the
\* address stored in an instruction is its index in the stream
C18_AddressIsIndex ==
    genResult # Null =>
        \A i \in 1..Len(genResult.instructions) :
            genResult.instructions[i].address = i - 1

\* a successful outcome from which the peephole pass deleted the entry PUSH
\* and a POP, three instructions being left
C18_Witness ==
    /\ Succeeded
    /\ optimizeCode
    /\ genResult.statistics.instructionCount = Len(genResult.instructions) + 2
    /\ Len(genResult.instructions) = 3
    /\ \A i \in 1..3 : genResult.instructions[i].address = i - 1

IsVariableEntry(e) == e.type = "variable"

\* the entries of type "variable" of the symbol table given to generate,
\* in their order, with the addresses 0, 1, ...
SeededTable(symbolTable) ==
    LET variables == SelectSeq(symbolTable, IsVariableEntry)
    IN  [i \in 1..Len(variables) |-> [key |-> variables[i].name, value |-> i - 1]]

\* the variable table is the seeded one all through the run
TableSeededAndFixed ==
    gpc \in {"walk", "done"} => genResult.symbolTable = SeededTable(genSymbolTable)

\* the successful run of a Program gave the entry PUSH, the lowering of the
\* tree, every STORE and LOAD_VAR with what the table holds for its name,
\* and HALT, less the PUSH, POP pairs when the peephole pass is on
OperandsFromTable ==
    (Succeeded /\ genAst.type = "Program") =>
        LET l    == Lowered(genAst, genResult.symbolTable, 0, 1)
            full == <<Instr("PUSH", Value(0))>> \o l.code \o <<Instr("HALT", NoOperand)>>
        IN  Stream(genResult) = IF optimizeCode THEN WithoutPairs(full) ELSE full

\* C19: the variable table holds the entries of type "variable" of the
\* symbol table given, with the addresses 0, 1, ... in their order, and
\* stays so all through the run; every STORE and LOAD_VAR emitted carries
\* the address the table holds for the variable it names
C19_VariableTable ==
    /\ TableSeededAndFixed
    /\ OperandsFromTable
    /\ gpc \in {"walk", "done"} =>
           \A i \in 1..Len(genResult.instructions) :
               genResult.instructions[i].opcode \in {"STORE", "LOAD_VAR"}
                   => \E k \in 1..Len(genResult.symbolTable) :
                          genResult.instructions[i].operand
                              = Address(genResult.symbolTable[k].value)

\* the types of the nodes without a case in generateNode, in the order
\* generate comes to them
RECURSIVE UnsupportedTypes(_)
RECURSIVE UnsupportedTypesOfAll(_)
RECURSIVE UnsupportedTypesOfDeclarations(_)
UnsupportedTypesOfAll(nodes) ==
    IF nodes = <<>> THEN <<>>
    ELSE UnsupportedTypes(Head(nodes)) \o UnsupportedTypesOfAll(Tail(nodes))
UnsupportedTypesOfDeclarations(declarations) ==
    IF declarations = <<>> THEN <<>>
    ELSE UnsupportedTypes(Head(declarations).init)
             \o UnsupportedTypesOfDeclarations(Tail(declarations))
UnsupportedTypes(node) ==
    CASE node.type \in {"Program", "BlockStatement"} -> UnsupportedTypesOfAll(node.body)
      [] node.type = "VariableDeclaration" ->
             UnsupportedTypesOfDeclarations(node.declarations)
      [] node.type = "AssignmentExpression" -> UnsupportedTypes(node.right)
      [] node.type = "BinaryExpression" ->
             UnsupportedTypes(node.left) \o UnsupportedTypes(node.right)
      [] node.type = "UnaryExpression" -> UnsupportedTypes(node.argument)
      [] node.type \in {"ExpressionStatement", "PrintStatement"} ->
             UnsupportedTypes(node.expression)
      [] node.type = "IfStatement" ->
             UnsupportedTypes(node.test) \o UnsupportedTypes(node.consequent)
                 \o UnsupportedTypes(node.alternate)
      [] node.type = "WhileStatement" ->
             UnsupportedTypes(node.test) \o UnsupportedTypes(node.body)
      [] node.type \in {"Literal", "Identifier", "null"} -> <<>>
      [] OTHER -> <<node.type>>

UnsupportedWarning(type) ==
    [type |-> "unsupported_node", message |-> <<"unsupported node type: ", type>>]

\* the stream of a successful run is the entry PUSH, the lowering of the
\* tree, in which a node of an unsupported type has no instruction, and
\* HALT, less the PUSH, POP pairs when the peephole pass is on
LoweredWithoutUnsupported ==
    LET l    == Lowered(genAst, genResult.symbolTable, 0, 1)
        full == <<Instr("PUSH", Value(0))>> \o l.code \o <<Instr("HALT", NoOperand)>>
    IN  Stream(genResult) = IF optimizeCode THEN WithoutPairs(full) ELSE full

\* C20: a node of a type generateNode has no case for gives one warning
\* and no instruction, and generate goes on with what follows it: a
\* successful outcome has one unsupported_node warning per such node, in
\* their order, and the instructions of the other nodes; a run ends with
\* success = false only when an error was recorded
C20_UnsupportedNodeWarned ==
    /\ Succeeded =>
           /\ genResult.warnings
                  = [i \in 1..Len(UnsupportedTypes(genAst)) |->
                        UnsupportedWarning(UnsupportedTypes(genAst)[i])]
           /\ LoweredWithoutUnsupported
    /\ GenerateDone => (genResult.success <=> genResult.errors = <<>>)

\* f(); var x = 5 with x at address 0: one warning for the call, then the
\* declaration is generated and the run succeeds
C20_Witness ==
    /\ Succeeded
    /\ ~optimizeCode
    /\ genAst.type = "Program"
    /\ Len(genAst.body) = 2
    /\ genAst.body[1] = ExpressionStatement([type |-> "CallExpression"])
    /\ genAst.body[2].type = "VariableDeclaration"
    /\ genResult.warnings = <<UnsupportedWarning("CallExpression")>>
    /\ Stream(genResult)
           = <<Instr("PUSH", Value(0)), Instr("POP", NoOperand),
               Instr("LOAD", Value(5)), Instr("STORE", Address(0)),
               Instr("HALT", NoOperand)>>

(***************************************************************************)
(* The public entry points on trees nothing has checked                    *)
(*                                                                         *)
(* optimize and generate are called, one call at a time, on null and on    *)
(* BinaryExpressions that lack operands or the operator (a missing field   *)
(* is Null, a missing operator the string "undefined").                    *)
(***************************************************************************)
NoOperator == "undefined"

UncheckedTrees ==
    {Null,
     BinaryExpression(NoOperator, Null, Null),
     BinaryExpression("+", Null, Null),
     BinaryExpression("+", createNumericLiteral(1), Null),
     BinaryExpression("+", Null, createNumericLiteral(1)),
     BinaryExpression("*", Null, createNumericLiteral(1)),
     BinaryExpression("<", Identifier("a"), Null),
     BinaryExpression("+", Literal(5), Null),
     BinaryExpression("+", createNumericLiteral(1), createNumericLiteral(1)),
     Program(<<ExpressionStatement(
                   BinaryExpression("+", createNumericLiteral(1),
                                    createNumericLiteral(1))),
               ExpressionStatement(BinaryExpression(NoOperator, Null, Null))>>),
     Program(<<ExpressionStatement(Literal(5)),
               ExpressionStatement(BinaryExpression("+", Literal(5), Null))>>)}

OptimizeUnchecked ==
    /\ pc = "idle"
    /\ gpc # "walk"
    /\ \E t \in UncheckedTrees : OptimizeEnter(t, FALSE)

GenerateUnchecked ==
    /\ gpc = "idle"
    /\ pc # "loop"
    /\ \E a \in UncheckedTrees, symbolTable \in SymbolTables :
           GenerateEnter(a, symbolTable)

EntryNext ==
    \/ OptimizeUnchecked
    \/ OptimizationRound
    \/ OptimizeReturn
    \/ NewOptimizer
    \/ GenerateUnchecked
    \/ GenerateNothing
    \/ GenerateProgram
    \/ GenerateBinaryExpression
    \/ EmitBinaryOperator
    \/ GenerateLiteral
    \/ GenerateIdentifier
    \/ GenerateExpressionStatement
    \/ GenerateUnsupported
    \/ EmitInstruction
    \/ GenerateReturn
    \/ NewCodeGenerator

\* a BinaryExpression of the tree lacks an operand or the operator
RECURSIVE LacksOperand(_)
LacksOperand(node) ==
    CASE node.type = "BinaryExpression" ->
             \/ node.operator = NoOperator
             \/ node.left.type = "null" \/ node.right.type = "null"
             \/ LacksOperand(node.left) \/ LacksOperand(node.right)
      [] node.type = "Program" ->
             \E i \in 1..Len(node.body) : LacksOperand(node.body[i])
      [] node.type = "ExpressionStatement" -> LacksOperand(node.expression)
      [] OTHER -> FALSE

\* C21: no exception leaves optimize or generate, whatever the tree (null,
\* a BinaryExpression without operands); what they return has success =
\* true and no error record, or success = false and exactly one error
\* record, the latter when the traversal threw
C21_NoEscape ==
    /\ pc \in {"idle", "loop", "done"}
    /\ gpc \in {"idle", "walk", "done"}
    /\ OptimizeDone =>
           \/ result.success /\ result.errors = <<>>
           \/ ~result.success /\ Len(result.errors) = 1
    /\ GenerateDone =>
           \/ genResult.success /\ genResult.errors = <<>>
           \/ ~genResult.success /\ Len(genResult.errors) = 1
    /\ (OptimizeDone /\ ast.type = "BinaryExpression" /\ ast.left.type = "null"
            /\ currentPass > 0) =>
           ~result.success
    /\ (GenerateDone /\ genAst.type = "BinaryExpression"
            /\ genAst.operator = NoOperator) =>
           ~genResult.success

\* optimize of a Program whose second statement is a BinaryExpression
\* without operands: the fold of the first statement is in the log, one
\* error is recorded and success is false
C21_Witness ==
    /\ OptimizeDone
    /\ ast.type = "Program"
    /\ LacksOperand(ast)
    /\ ~result.success
    /\ Len(result.errors) = 1
    /\ result.statistics.constantFoldings = 1
    /\ result.optimizedAST = Null

(***************************************************************************)
(* Properties of the optimizer, continued                                  *)
(***************************************************************************)
\* the keys of the BinaryExpressions of a tree in the order the detector
\* comes to them: the operands before the expression, left to right
RECURSIVE BinaryKeys(_)
RECURSIVE BinaryKeysOfAll(_)
BinaryKeysOfAll(nodes) ==
    IF nodes = <<>> THEN <<>>
    ELSE BinaryKeys(Head(nodes)) \o BinaryKeysOfAll(Tail(nodes))
BinaryKeys(node) ==
    CASE node.type = "BinaryExpression" ->
             BinaryKeys(node.left) \o BinaryKeys(node.right)
                 \o <<getExpressionKey(node)>>
      [] node.type \in {"Program", "BlockStatement"} -> BinaryKeysOfAll(node.body)
      [] node.type \in {"ExpressionStatement", "PrintStatement"} ->
             BinaryKeys(node.expression)
      [] node.type = "UnaryExpression" -> BinaryKeys(node.argument)
      [] OTHER -> <<>>

\* the number of keys that occur earlier in the sequence
Repeats(keys) ==
    Cardinality({i \in 1..Len(keys) : \E j \in 1..(i - 1) : keys[j] = keys[i]})

OnlyDetections(res) ==
    /\ res.statistics.constantFoldings = 0
    /\ res.statistics.algebraicSimplifications = 0
    /\ res.statistics.deadCodeEliminations = 0

C22_WitnessRounds ==
    /\ OptimizeDone
    /\ OnlyDetections(result)
    /\ currentPass = DefaultMaxOptimizationPasses
    /\ result.statistics.commonSubexpressionEliminations
           = DefaultMaxOptimizationPasses

\* the place of a pass in a round, by the counter its log entries name
PassRank(type) ==
    CASE type = "constantFoldings" -> 1
      [] type = "algebraicSimplifications" -> 2
      [] type = "commonSubexpressionEliminations" -> 3
      [] type = "deadCodeEliminations" -> 4

\* the number of log entries of the rounds before round k
RECURSIVE EntriesBefore(_, _)
EntriesBefore(perRound, k) ==
    IF k = 1 THEN 0 ELSE EntriesBefore(perRound, k - 1) + perRound[k - 1]

\* C24: in the log of optimize the entries of one round are in the order
\* folder, simplifier, detector, dead-code pass; a + (2 - 2) is folded and
\* simplified to a in the first round, and the statement 1 + 1; is folded
\* and removed in the first round
C24_PassOrder ==
    /\ OptimizeDone =>
           \A k \in 1..Len(rounds) :
               \A i, j \in 1..rounds[k] :
                   i < j =>
                       PassRank(result.optimizations[EntriesBefore(rounds, k) + i].type)
                           <= PassRank(result.optimizations[EntriesBefore(rounds, k) + j].type)
    /\ (OptimizeDone /\ options.maxOptimizationPasses > 0
            /\ ast = BinaryExpression("+", Identifier("a"),
                         BinaryExpression("-", createNumericLiteral(2),
                                          createNumericLiteral(2)))) =>
           /\ rounds[1] = 2
           /\ result.optimizations[1].type = "constantFoldings"
           /\ result.optimizations[2].type = "algebraicSimplifications"
           /\ result.optimizedAST = Identifier("a")
    /\ (OptimizeDone /\ options.maxOptimizationPasses > 0
            /\ ast = Program(<<ExpressionStatement(
                                   BinaryExpression("+", createNumericLiteral(1),
                                                    createNumericLiteral(1)))>>)) =>
           /\ rounds[1] = 2
           /\ result.optimizations[1].type = "constantFoldings"
           /\ result.optimizations[2].type = "deadCodeEliminations"
           /\ result.optimizedAST = Program(<<>>)

\* a + (2 - 2) after optimize with one round allowed: a, two rewrites
C24_Witness ==
    /\ OptimizeDone
    /\ options.maxOptimizationPasses = 1
    /\ ast = BinaryExpression("+", Identifier("a"),
                 BinaryExpression("-", createNumericLiteral(2),
                                  createNumericLiteral(2)))
    /\ rounds = <<2>>
    /\ result.optimizedAST = Identifier("a")

\* what an instruction adds to the depth of the stack
StackEffect(opcode) ==
    CASE opcode \in {"LOAD", "LOAD_VAR", "PUSH"} -> 1
      [] opcode \in {"NEG", "NOT", "JMP", "HALT"} -> 0
      [] OTHER -> -1

\* the depth after the first k instructions of s, 0 at the start
RECURSIVE DepthAfter(_, _)
DepthAfter(s, k) ==
    IF k = 0 THEN 0 ELSE DepthAfter(s, k - 1) + StackEffect(s[k].opcode)

\* the instructions between the entry PUSH and HALT
StatementCode(res) == SubSeq(res.instructions, 2, Len(res.instructions) - 1)

\* C25: the code of an ExpressionStatement whose expression generate
\* supports (no warning) leaves the depth of the stack as it found it and
\* never takes it below that
C25_ExpressionStatementBalanced ==
    (/\ Succeeded
     /\ ~optimizeCode
     /\ OneStatement("ExpressionStatement")
     /\ genResult.warnings = <<>>) =>
        /\ DepthAfter(StatementCode(genResult), Len(StatementCode(genResult))) = 0
        /\ \A k \in 0..Len(StatementCode(genResult)) :
               DepthAfter(StatementCode(genResult), k) >= 0

\* the address an instruction at the 0-based address a of the stream s has
\* once the PUSH, POP pairs before it are deleted
AddressWithoutPairs(s, a) == a - 2 * PairsBefore(s, a + 1)

\* C26: in a successful outcome with the peephole pass on, every label
\* holds the address, in the final stream, of the instruction emitted right
\* after the label was placed (the length of the stream when there is
\* none), and so lies within 0..Len(instructions)
C26_LabelsFollowDeletion ==
    (Succeeded /\ optimizeCode /\ genAst.type = "Program") =>
        LET l    == Lowered(genAst, genResult.symbolTable, 0, 1)
            full == <<Instr("PUSH", Value(0))>> \o l.code \o <<Instr("HALT", NoOperand)>>
        IN  /\ Len(genResult.labelTable) = Len(l.labels)
            /\ \A i \in 1..Len(genResult.labelTable) :
                   /\ genResult.labelTable[i].key = l.labels[i].key
                   /\ genResult.labelTable[i].value
                          = AddressWithoutPairs(full, l.labels[i].value)
                   /\ genResult.labelTable[i].value \in 0..Len(genResult.instructions)

\* the BinaryExpressions of a tree in the order of BinaryKeys
RECURSIVE BinaryNodes(_)
RECURSIVE BinaryNodesOfAll(_)
BinaryNodesOfAll(nodes) ==
    IF nodes = <<>> THEN <<>>
    ELSE BinaryNodes(Head(nodes)) \o BinaryNodesOfAll(Tail(nodes))
BinaryNodes(node) ==
    CASE node.type = "BinaryExpression" ->
             BinaryNodes(node.left) \o BinaryNodes(node.right) \o <<node>>
      [] node.type \in {"Program", "BlockStatement"} -> BinaryNodesOfAll(node.body)
      [] node.type \in {"ExpressionStatement", "PrintStatement"} ->
             BinaryNodes(node.expression)
      [] node.type = "UnaryExpression" -> BinaryNodes(node.argument)
      [] OTHER -> <<>>

\* C27: two BinaryExpressions of the tree given to the detector have the
\* same key only if they are structurally equal, so that the detections
\* recorded are the structural repetitions
C27_KeyCanonical ==
    PassDone("commonSubexpressionElimination") =>
        /\ \A i, j \in 1..Len(BinaryNodes(ast)) :
               getExpressionKey(BinaryNodes(ast)[i]) = getExpressionKey(BinaryNodes(ast)[j])
                   => BinaryNodes(ast)[i] = BinaryNodes(ast)[j]
        /\ result.statistics.commonSubexpressionEliminations
               = Repeats(BinaryNodes(ast))

\* C28: in every successful outcome the instruction counter of the
\* statistics equals the length of the final instruction stream, also
\* when the peephole step has deleted instructions
C28_InstructionCount ==
    Succeeded =>
        genResult.statistics.instructionCount = Len(genResult.instructions)

\* ------------------------------------------------------------------
\* The compiler driver: CompilationResult and Compiler.compile
\* ------------------------------------------------------------------

MaxErrors == 2

\* new CompilationResult()
NewCompilationResult ==
    [success |-> FALSE,
     errors |-> [lexical |-> <<>>, syntax |-> <<>>, semantic |-> <<>>,
                 optimization |-> <<>>, codegen |-> <<>>],
     statistics |-> [errorCount |-> 0]]

\* CompilationResult.addError: an error of a phase that has no list in
\* this.errors is dropped
CompilationResultAddError(res, phase, error) ==
    IF phase \in DOMAIN res.errors
    THEN [res EXCEPT !.errors[phase] = Append(@, error)]
    ELSE res

RECURSIVE AddErrors(_, _, _)
AddErrors(res, phase, errors) ==
    IF errors = <<>> THEN res
    ELSE AddErrors(CompilationResultAddError(res, phase, Head(errors)), phase,
                   Tail(errors))

getAllErrors(res) ==
    LET OfPhase(phase) == [i \in 1..Len(res.errors[phase]) |->
                              [phase |-> phase, error |-> res.errors[phase][i]]]
    IN OfPhase("lexical") \o OfPhase("syntax") \o OfPhase("semantic")
           \o OfPhase("optimization") \o OfPhase("codegen")

hasErrors(res) == Len(getAllErrors(res)) > 0

getErrorCount(res) == Len(getAllErrors(res))

\* Compiler.finishCompilation
finishCompilation(res) ==
    [res EXCEPT !.statistics.errorCount = getErrorCount(res)]

\* what an analyser hands back to its perform method: no error, a list of
\* errors, or an exception.  this.lexicalAnalyzer is not assigned by the
\* constructor, so performLexicalAnalysis throws unless a caller has set it.
ReportedErrors(n) == [i \in 1..n |-> [message |-> "reported", line |-> i, column |-> 0]]

PhaseOutcomes(phase) ==
    {[kind |-> "ok"], [kind |-> "thrown"]}
        \cup {[kind |-> "errors", errors |-> ReportedErrors(n)] :
                  n \in 1..(IF phase = "optimization" THEN 1 ELSE MaxErrors)}

CaughtError(phase) ==
    [message |-> <<phase, " error: ", "Error">>, line |-> 0, column |-> 0]

CompilerOptionChoices ==
    [enableOptimization : BOOLEAN, enableCodeGeneration : BOOLEAN]

\* new Compiler(options), before any call
CompilerIdle ==
    /\ compilerOptions = [enableOptimization |-> FALSE, enableCodeGeneration |-> TRUE]
    /\ cpc = "idle"
    /\ centry = "none"
    /\ compilation = Null
    /\ phasesRun = <<>>

CompilerInit ==
    /\ compilerOptions \in CompilerOptionChoices
    /\ cpc = "idle"
    /\ centry = "none"
    /\ compilation = Null
    /\ phasesRun = <<>>

\* the position after a phase has succeeded
AfterPhase(phase) ==
    CASE phase = "lexical" -> "syntax"
      [] phase = "syntax" -> "semantic"
      [] phase = "semantic" -> "optimization"
      [] phase = "optimization" -> "codegen"
      [] phase = "codegen" -> "succeed"

\* Compiler.compile up to the first phase
Compile ==
    /\ cpc = "idle"
    /\ cpc' = "lexical"
    /\ centry' = "compile"
    /\ compilation' = NewCompilationResult
    /\ phasesRun' = <<>>
    /\ UNCHANGED <<compilerOptions, optVars, genVars, callVars, heapVars>>

\* Compiler.compileFile: a missing or unreadable file is caught and
\* recorded under the phase 'file'
CompileFile ==
    /\ cpc = "idle"
    /\ centry' = "compileFile"
    /\ phasesRun' = <<>>
    /\ \E readable \in BOOLEAN :
           IF readable
           THEN /\ cpc' = "lexical"
                /\ compilation' = NewCompilationResult
           ELSE /\ cpc' = "returned"
                /\ compilation' =
                       CompilationResultAddError(NewCompilationResult, "file",
                           [message |-> <<"File error: ", "File not found">>,
                            line |-> 0, column |-> 0])
    /\ UNCHANGED <<compilerOptions, optVars, genVars, callVars, heapVars>>

\* one of the five perform methods and the test of its success in compile
PerformPhase(phase, outcome) ==
    /\ cpc = phase
    /\ phasesRun' = Append(phasesRun, [phase |-> phase, success |-> outcome.kind = "ok"])
    /\ CASE outcome.kind = "ok" ->
               /\ compilation' = compilation
               /\ cpc' = AfterPhase(phase)
         [] outcome.kind = "errors" ->
               /\ compilation' =
                      finishCompilation(AddErrors(compilation, phase, outcome.errors))
               /\ cpc' = "returned"
         [] outcome.kind = "thrown" ->
               /\ compilation' =
                      finishCompilation(
                          CompilationResultAddError(compilation, phase,
                                                    CaughtError(phase)))
               /\ cpc' = "returned"
    /\ UNCHANGED <<compilerOptions, centry, optVars, genVars, callVars, heapVars>>

PerformLexicalAnalysis ==
    /\ cpc = "lexical"
    /\ \E outcome \in PhaseOutcomes("lexical") : PerformPhase("lexical", outcome)

PerformSyntaxAnalysis ==
    /\ cpc = "syntax"
    /\ \E outcome \in PhaseOutcomes("syntax") : PerformPhase("syntax", outcome)

PerformSemanticAnalysis ==
    /\ cpc = "semantic"
    /\ \E outcome \in PhaseOutcomes("semantic") : PerformPhase("semantic", outcome)

PerformOptimization ==
    /\ cpc = "optimization"
    /\ compilerOptions.enableOptimization
    /\ \E outcome \in PhaseOutcomes("optimization") :
           PerformPhase("optimization", outcome)

SkipOptimization ==
    /\ cpc = "optimization"
    /\ ~compilerOptions.enableOptimization
    /\ cpc' = "codegen"
    /\ UNCHANGED <<compilerOptions, centry, compilation, phasesRun, optVars, genVars, callVars, heapVars>>

PerformCodeGeneration ==
    /\ cpc = "codegen"
    /\ compilerOptions.enableCodeGeneration
    /\ \E outcome \in PhaseOutcomes("codegen") : PerformPhase("codegen", outcome)

SkipCodeGeneration ==
    /\ cpc = "codegen"
    /\ ~compilerOptions.enableCodeGeneration
    /\ cpc' = "succeed"
    /\ UNCHANGED <<compilerOptions, centry, compilation, phasesRun, optVars, genVars, callVars, heapVars>>

\* result.success = true and the final finishCompilation
CompileSucceed ==
    /\ cpc = "succeed"
    /\ compilation' = finishCompilation([compilation EXCEPT !.success = TRUE])
    /\ cpc' = "returned"
    /\ UNCHANGED <<compilerOptions, centry, phasesRun, optVars, genVars, callVars, heapVars>>

\* the catch of compile: an exception raised between the phases is recorded
\* under the phase 'internal'
CompileCatch ==
    /\ cpc \in {"lexical", "syntax", "semantic", "optimization", "codegen", "succeed"}
    /\ compilation' =
           finishCompilation(
               CompilationResultAddError(compilation, "internal",
                   [message |-> <<"Internal compiler error: ", "Error">>,
                    line |-> 0, column |-> 0]))
    /\ cpc' = "returned"
    /\ UNCHANGED <<compilerOptions, centry, phasesRun, optVars, genVars, callVars, heapVars>>

\* the next compiler, with options of its own
NewCompiler ==
    /\ cpc = "returned"
    /\ cpc' = "idle"
    /\ compilerOptions' \in CompilerOptionChoices
    /\ centry' = "none"
    /\ compilation' = Null
    /\ phasesRun' = <<>>
    /\ UNCHANGED <<optVars, genVars, callVars, heapVars>>

CompileNext ==
    \/ Compile
    \/ CompileFile
    \/ PerformLexicalAnalysis
    \/ PerformSyntaxAnalysis
    \/ PerformSemanticAnalysis
    \/ PerformOptimization
    \/ SkipOptimization
    \/ PerformCodeGeneration
    \/ SkipCodeGeneration
    \/ CompileSucceed
    \/ CompileCatch
    \/ NewCompiler

\* ------------------------------------------------------------------
\* Properties of the compiler driver
\* ------------------------------------------------------------------

CompileReturned == cpc = "returned"

\* a phase is performed only when every earlier phase has succeeded
PhasesInOrder ==
    \A i \in 2..Len(phasesRun) : phasesRun[i - 1].success

\* C30: a compilation that returns success = false has at least one
\* recorded error (hasErrors() is true and getErrorCount() >= 1), for a
\* missing input file and for an internal exception too, and a phase is
\* performed only when every earlier phase has succeeded
C30_FailureReported ==
    /\ PhasesInOrder
    /\ (CompileReturned /\ ~compilation.success) =>
           /\ hasErrors(compilation)
           /\ getErrorCount(compilation) >= 1

\* ------------------------------------------------------------------
\* Several calls on one Optimizer and on one CodeGenerator
\* ------------------------------------------------------------------

MaxCalls == 2

\* the trees given to the calls: trees that take one, two and three rounds,
\* trees that make optimize throw, and trees that use every generator method
ReuseTrees ==
    UncheckedTrees
        \cup {RoundLimitTree,
              Identifier("a"),
              BinaryExpression("+", Identifier("a"),
                  BinaryExpression("-", createNumericLiteral(2),
                                   createNumericLiteral(2))),
              Program(<<ExpressionStatement(
                            BinaryExpression("+", Identifier("a"), Identifier("a"))),
                        ExpressionStatement(
                            BinaryExpression("+", Identifier("a"), Identifier("a")))>>)}

ReuseGenerateTrees ==
    {Program(<<s, t>>) : s \in SiblingStatements, t \in SiblingStatements}
        \cup {Null,
              UnaryExpression("-", Identifier("x")),
              BinaryExpression("+", Identifier("x"), Literal(5)),
              Program(<<VariableDeclaration(<<VariableDeclarator("y", Null),
                                              VariableDeclarator("x", Literal(5))>>),
                        ExpressionStatement(
                            AssignmentExpression(Identifier("x"), Literal(5)))>>),
              Program(<<BlockStatement(<<PrintStatement(Identifier("x"))>>),
                        ExpressionStatement(Identifier("q"))>>)}

\* optimize(t) on an instance that is new or has returned from optimize
OptimizeOnInstance ==
    /\ pc \in {"idle", "done"}
    /\ pc = "done" => entry = "optimize"
    /\ gpc = "idle"
    /\ optimizeCalls < MaxCalls
    /\ \E t \in ReuseTrees : OptimizeEnter(t, FALSE)

\* generate(a, symbolTable) on an instance that is new or has returned
GenerateOnInstance ==
    /\ gpc \in {"idle", "done"}
    /\ pc = "idle"
    /\ generateCalls < MaxCalls
    /\ \E a \in ReuseGenerateTrees, symbolTable \in SymbolTables :
           GenerateEnter(a, symbolTable)

ReuseNext ==
    \/ OptimizeOnInstance
    \/ OptimizationRound
    \/ OptimizeReturn
    \/ NewOptimizer
    \/ GenerateOnInstance
    \/ GenerateNothing
    \/ GenerateProgram
    \/ GenerateBlockStatement
    \/ GenerateVariableDeclaration
    \/ StoreDeclaration
    \/ GenerateAssignment
    \/ StoreAssignment
    \/ GenerateBinaryExpression
    \/ EmitBinaryOperator
    \/ GenerateUnaryExpression
    \/ EmitUnaryOperator
    \/ GenerateLiteral
    \/ GenerateIdentifier
    \/ GenerateIfStatement
    \/ GenerateWhileStatement
    \/ GenerateExpressionStatement
    \/ GeneratePrintStatement
    \/ GenerateUnsupported
    \/ EmitInstruction
    \/ PlaceLabel
    \/ GenerateReturn
    \/ NewCodeGenerator

\* what optimize returns on an Optimizer that has made no call: the loop of
\* optimize run from optimizationCount = 0 and a new OptimizationResult
RECURSIVE FreshRounds(_, _, _, _, _)
RECURSIVE FreshRound(_, _, _, _)
FreshRound(r, startCount, pass, opts) ==
    IF IsThrown(r)
    THEN [result |-> addError(r.st.result,
                              [message |-> <<"Optimization error: ", r.thrown>>,
                               line |-> 0, column |-> 0]),
          currentPass |-> pass + 1]
    ELSE FreshRounds(r.node, r.st, pass + 1,
                     r.st.optimizationCount > startCount, opts)
FreshRounds(tree, st, pass, changed, opts) ==
    IF changed /\ pass < opts.maxOptimizationPasses
    THEN FreshRound(performOptimizationPass(tree, st, opts),
                    st.optimizationCount, pass, opts)
    ELSE [result |-> [st.result EXCEPT !.optimizedAST = tree, !.success = TRUE],
          currentPass |-> pass]

OptimizeFresh(t, opts) ==
    FreshRounds(deepCloneAST(t),
                [result |-> NewOptimizationResult, optimizationCount |-> 0],
                0, TRUE, opts)

SameAsFresh(fresh) ==
    /\ result = fresh.result
    /\ currentPass = fresh.currentPass

\* what generate returns for a Program on a CodeGenerator that has made no
\* call: labels numbered from 0, the table seeded from the symbol table
SameAsFreshGenerator(l) ==
    /\ Stream(genResult)
           = IF optimizeCode
             THEN WithoutPairs(<<Instr("PUSH", Value(0))>> \o l.code
                                   \o <<Instr("HALT", NoOperand)>>)
             ELSE <<Instr("PUSH", Value(0))>> \o l.code \o <<Instr("HALT", NoOperand)>>
    /\ genResult.labelTable = l.labels
    /\ genResult.statistics.labelCount = Len(l.labels)
    /\ genResult.statistics.instructionCount = Len(l.code) + 2
    /\ genResult.errors = <<>>

LaterOptimizeReturned == pc = "done" /\ entry = "optimize" /\ optimizeCalls >= 2

LaterGenerateReturned == gpc = "done" /\ generateCalls >= 2

\* C29: a later call on the same instance returns what a new instance
\* returns: optimize the same tree, log, counters and number of rounds,
\* generate the same instruction stream, variable table and label names
C29_NoStateLeak ==
    /\ LaterOptimizeReturned => SameAsFresh(OptimizeFresh(ast, options))
    /\ (LaterGenerateReturned /\ genResult.success /\ genAst.type = "Program") =>
           /\ genResult.symbolTable = SeededTable(genSymbolTable)
           /\ SameAsFreshGenerator(Lowered(genAst, genResult.symbolTable, 0, 1))
    /\ (LaterGenerateReturned /\ ~genResult.success) =>
           Len(genResult.errors) = 1

\* a second optimize call that needed two rounds after a first call that
\* had left optimizationCount above 0, and a second generate call that
\* made labels
C29_Witness ==
    /\ LaterOptimizeReturned
    /\ optimizationCount > result.statistics.totalOptimizations
    /\ currentPass >= 2

C29_WitnessGenerator ==
    /\ LaterGenerateReturned
    /\ genResult.success
    /\ genAst.type = "Program"
    /\ Len(genResult.labelTable) >= 2

\* ------------------------------------------------------------------
\* Trees as objects: what the passes write and where
\* ------------------------------------------------------------------
\* An object is a node whose child fields hold addresses (0 for null) and
\* whose array fields hold sequences of addresses.

HeapInit ==
    /\ hheap = <<>>
    /\ hbefore = <<>>
    /\ hroot = 0
    /\ hreturned = 0
    /\ hentry = "none"
    /\ hpc = "empty"

\* a new object literal
Alloc(h, obj) == [h |-> Append(h, obj), a |-> Len(h) + 1]

Cons(a, r) == [h |-> r.h, a |-> <<a>> \o r.a]

\* JSON.parse of the text of t: one new object per node
RECURSIVE Store(_, _)
RECURSIVE StoreKeys(_, _, _, _)
RECURSIVE StoreKey(_, _, _, _)
RECURSIVE StoreAll(_, _)
RECURSIVE StoreAllRest(_, _)
Store(h, t) ==
    IF t.type = "null" THEN [h |-> h, a |-> 0]
    ELSE StoreKeys(h, t, ChildKeys(t), t)
StoreKeys(h, t, keys, obj) ==
    IF keys = <<>> THEN Alloc(h, obj)
    ELSE StoreKey(IF IsArrayKey(t, Head(keys))
                  THEN StoreAll(h, t[Head(keys)])
                  ELSE Store(h, t[Head(keys)]),
                  t, keys, obj)
StoreKey(r, t, keys, obj) ==
    StoreKeys(r.h, t, Tail(keys), [obj EXCEPT ![Head(keys)] = r.a])
StoreAll(h, ts) ==
    IF ts = <<>> THEN [h |-> h, a |-> <<>>]
    ELSE StoreAllRest(Store(h, Head(ts)), Tail(ts))
StoreAllRest(r, ts) == Cons(r.a, StoreAll(r.h, ts))

\* JSON.stringify of the object at a, as a tree
RECURSIVE Load(_, _)
RECURSIVE LoadKeys(_, _, _)
Load(h, a) ==
    IF a = 0 THEN Null ELSE LoadKeys(h, h[a], ChildKeys(h[a]))
LoadKeys(h, obj, keys) ==
    IF keys = <<>> THEN obj
    ELSE LoadKeys(h,
             [obj EXCEPT ![Head(keys)] =
                 IF IsArrayKey(obj, Head(keys))
                 THEN [i \in 1..Len(obj[Head(keys)]) |-> Load(h, obj[Head(keys)][i])]
                 ELSE Load(h, obj[Head(keys)])],
             Tail(keys))

\* mutant: the node itself is handed back
deepCloneNodeShared(h, a) == [h |-> h, a |-> a]

\* deepCloneNode and deepCloneAST: JSON.parse(JSON.stringify(node))
deepCloneNodeAt(h, a) == Store(h, Load(h, a))
deepCloneASTAt(h, a) == Store(h, Load(h, a))

\* the context the decisions of a pass are taken in; the log is not kept
HeapSt == [result |-> NewOptimizationResult, optimizationCount |-> 0]

RECURSIVE HeapPass(_, _, _)
RECURSIVE HeapMapArray(_, _, _)
RECURSIVE HeapMapArrayRest(_, _, _)
RECURSIVE HeapMapKeys(_, _, _, _)
RECURSIVE HeapWrite(_, _, _, _)

\* array.map(child => pass(child, result))
HeapMapArray(pass, h, arr) ==
    IF arr = <<>> THEN [h |-> h, a |-> <<>>]
    ELSE HeapMapArrayRest(pass, HeapPass(pass, h, Head(arr)), Tail(arr))
HeapMapArrayRest(pass, r, rest) == Cons(r.a, HeapMapArray(pass, r.h, rest))

\* Object.keys(c).forEach(key => c[key] = pass(c[key], result)): the
\* object at c is written
HeapMapKeys(pass, h, c, keys) ==
    IF keys = <<>> THEN h
    ELSE HeapWrite(pass,
                   IF IsArrayKey(h[c], Head(keys))
                   THEN HeapMapArray(pass, h, h[c][Head(keys)])
                   ELSE HeapPass(pass, h, h[c][Head(keys)]),
                   c, keys)
HeapWrite(pass, r, c, keys) ==
    HeapMapKeys(pass, [r.h EXCEPT ![c][Head(keys)] = r.a], c, Tail(keys))

\* constantFolding after the children: a folded node is a new object
HeapFolded(h, c, v, folded) ==
    IF folded = v THEN [h |-> h, a |-> c] ELSE Alloc(h, folded)
HeapFoldTop(h, c, v) ==
    HeapFolded(h, c, v, FoldBinaryExpression([node |-> v, st |-> HeapSt]).node)
HeapFoldLoaded(h, c) == HeapFoldTop(h, c, Load(h, c))
HeapFoldClone(c) ==
    HeapFoldLoaded(HeapMapKeys("constantFolding", c.h, c.a, ChildKeys(c.h[c.a])),
                   c.a)

\* algebraicSimplification after the children: an identity hands back the
\* operand object, x * 0 a new literal
HeapSimplified(h, c, operator, left, right) ==
    CASE operator = "+" /\ IsLiteralOf(right, 0) -> [h |-> h, a |-> h[c].left]
      [] operator = "+" /\ IsLiteralOf(left, 0) -> [h |-> h, a |-> h[c].right]
      [] operator = "-" /\ IsLiteralOf(right, 0) -> [h |-> h, a |-> h[c].left]
      [] operator = "*" /\ IsLiteralOf(right, 1) -> [h |-> h, a |-> h[c].left]
      [] operator = "*" /\ IsLiteralOf(left, 1) -> [h |-> h, a |-> h[c].right]
      [] operator = "*" /\ (IsLiteralOf(right, 0) \/ IsLiteralOf(left, 0)) ->
            Alloc(h, NumericLiteral(<<"0">>))
      [] operator = "/" /\ IsLiteralOf(right, 1) -> [h |-> h, a |-> h[c].left]
      [] OTHER -> [h |-> h, a |-> c]
HeapSimplifyTop(h, c) ==
    IF h[c].type # "BinaryExpression" THEN [h |-> h, a |-> c]
    ELSE HeapSimplified(h, c, h[c].operator, Load(h, h[c].left), Load(h, h[c].right))
HeapSimplifyClone(c) ==
    HeapSimplifyTop(
        HeapMapKeys("algebraicSimplification", c.h, c.a, ChildKeys(c.h[c.a])), c.a)

\* findCommonExpressions writes the object it is given
HeapFind(h, a) ==
    [h |-> HeapMapKeys("findCommonExpressions", h, a, ChildKeys(h[a])), a |-> a]
HeapFindClone(c) == HeapFind(c.h, c.a)

\* deadCodeElimination: the body of a Program is filtered, then mapped
HeapLive(h, body) ==
    LET Live(s) == ~IsDeadStatement(Load(h, s)) IN SelectSeq(body, Live)
HeapFilterBody(h, c) == [h EXCEPT ![c].body = HeapLive(h, h[c].body)]
HeapDeadClone(c) ==
    [h |-> HeapMapKeys("deadCodeElimination",
                       IF c.h[c.a].type = "Program"
                       THEN HeapFilterBody(c.h, c.a) ELSE c.h,
                       c.a, ChildKeys(c.h[c.a])),
     a |-> c.a]

\* a pass called on the object at a
HeapPass(pass, h, a) ==
    IF a = 0 THEN [h |-> h, a |-> 0]
    ELSE CASE pass = "constantFolding" -> HeapFoldClone(deepCloneNodeAt(h, a))
           [] pass = "algebraicSimplification" ->
                  HeapSimplifyClone(deepCloneNodeAt(h, a))
           [] pass = "commonSubexpressionElimination" ->
                  HeapFindClone(deepCloneNodeAt(h, a))
           [] pass = "findCommonExpressions" -> HeapFind(h, a)
           [] pass = "deadCodeElimination" -> HeapDeadClone(deepCloneNodeAt(h, a))

\* performOptimizationPass
HeapRunPass(enabled, pass, r) == IF enabled THEN HeapPass(pass, r.h, r.a) ELSE r
HeapRound(r, opts) ==
    HeapRunPass(opts.enableDeadCodeElimination, "deadCodeElimination",
        HeapRunPass(opts.enableCommonSubexpressionElimination,
                    "commonSubexpressionElimination",
            HeapRunPass(opts.enableAlgebraicSimplification, "algebraicSimplification",
                HeapRunPass(opts.enableConstantFolding, "constantFolding", r))))

\* optimize: the clone of the tree, then as many rounds as the loop makes
RECURSIVE HeapRounds(_, _, _)
HeapRounds(r, n, opts) ==
    IF n = 0 THEN r ELSE HeapRounds(HeapRound(r, opts), n - 1, opts)
HeapOptimize(h, a, opts) ==
    HeapRounds(deepCloneASTAt(h, a), OptimizeFresh(Load(h, a), opts).currentPass, opts)

HeapInputs == OptimizeInputs \cup GroupingPrograms

\* a caller builds a tree
HeapBuild ==
    /\ hpc = "empty"
    /\ \E t \in HeapInputs :
           /\ hheap' = Store(<<>>, t).h
           /\ hroot' = Store(<<>>, t).a
    /\ hpc' = "built"
    /\ UNCHANGED <<hbefore, hreturned, hentry>>
    /\ UNCHANGED <<optVars, genVars, compilerVars, callVars>>

HeapCall(name, r) ==
    /\ hpc = "built"
    /\ hbefore' = hheap
    /\ hheap' = r.h
    /\ hreturned' = r.a
    /\ hentry' = name
    /\ hpc' = "done"
    /\ UNCHANGED hroot
    /\ UNCHANGED <<optVars, genVars, compilerVars, callVars>>

HeapOptimizeCall ==
    /\ hpc = "built"
    /\ HeapCall("optimize", HeapOptimize(hheap, hroot, options))

HeapConstantFoldingCall ==
    /\ hpc = "built"
    /\ HeapCall("constantFolding", HeapPass("constantFolding", hheap, hroot))

HeapAlgebraicSimplificationCall ==
    /\ hpc = "built"
    /\ HeapCall("algebraicSimplification",
                HeapPass("algebraicSimplification", hheap, hroot))

HeapCommonSubexpressionEliminationCall ==
    /\ hpc = "built"
    /\ HeapCall("commonSubexpressionElimination",
                HeapPass("commonSubexpressionElimination", hheap, hroot))

HeapDeadCodeEliminationCall ==
    /\ hpc = "built"
    /\ HeapCall("deadCodeElimination", HeapPass("deadCodeElimination", hheap, hroot))

\* the trees are dropped
HeapDrop ==
    /\ hpc = "done"
    /\ hheap' = <<>>
    /\ hbefore' = <<>>
    /\ hroot' = 0
    /\ hreturned' = 0
    /\ hentry' = "none"
    /\ hpc' = "empty"
    /\ UNCHANGED <<optVars, genVars, compilerVars, callVars>>

HeapNext ==
    \/ HeapBuild
    \/ HeapOptimizeCall
    \/ HeapConstantFoldingCall
    \/ HeapAlgebraicSimplificationCall
    \/ HeapCommonSubexpressionEliminationCall
    \/ HeapDeadCodeEliminationCall
    \/ HeapDrop

HeapDone == hpc = "done"

\* the tree returned is the tree the passes on values return
HeapAgreesWithValues ==
    HeapDone =>
        Load(hheap, hreturned)
            = IF hentry = "optimize"
              THEN OptimizeFresh(Load(hbefore, hroot), options).result.optimizedAST
              ELSE ApplyPass(hentry, Load(hbefore, hroot), HeapSt).node

\* C23: after optimize and after each of the four passes every object of
\* the tree passed in is what it was before the call, so the tree is
\* structurally identical to what it was, whatever was rewritten in the
\* tree returned
C23_InputNotMutated ==
    HeapDone =>
        /\ \A a \in 1..Len(hbefore) : hheap[a] = hbefore[a]
        /\ Load(hheap, hroot) = Load(hbefore, hroot)

\* a pass has rewritten the tree it returned
C23_Witness ==
    /\ HeapDone
    /\ hentry = "constantFolding"
    /\ Load(hheap, hreturned) # Load(hheap, hroot)
    /\ hreturned \notin 1..Len(hbefore)

C23_WitnessOptimize ==
    /\ HeapDone
    /\ hentry = "optimize"
    /\ Load(hheap, hreturned) # Load(hheap, hroot)

(***************************************************************************)
(* Specifications                                                          *)
(***************************************************************************)
\* the optimizer alone: the code generator stays as constructed
Init == OptInit /\ GenInit /\ optimizeCode /\ CompilerIdle /\ HeapInit
Spec == Init /\ [][OptNext]_vars

\* the code generator alone: the optimizer stays as constructed
GenSpecInit == GenInit /\ OptInit /\ options = DefaultOptions /\ CompilerIdle /\ HeapInit
GenSpec == GenSpecInit /\ [][GenNext]_vars

\* a CodeGenerationResult filled by hand and optimizeInstructions on it
PeepSpec == GenSpecInit /\ [][PeepNext]_vars

\* both entry points on unchecked trees, one call at a time
EntrySpecInit == OptInit /\ GenInit /\ CompilerIdle /\ HeapInit
EntrySpec == EntrySpecInit /\ [][EntryNext]_vars

\* both classes, each instance called up to MaxCalls times
ReuseSpecInit == OptInit /\ GenInit /\ CompilerIdle /\ HeapInit
ReuseSpec == ReuseSpecInit /\ [][ReuseNext]_vars

\* the passes on trees held as objects: the optimizer's options vary, the
\* generator and the compiler stay as constructed
HeapSpecInit == OptInit /\ GenInit /\ optimizeCode /\ CompilerIdle /\ HeapInit
HeapSpec == HeapSpecInit /\ [][HeapNext]_vars

\* the compiler driver alone: optimizer and generator stay as constructed
CompileSpecInit ==
    CompilerInit /\ OptInit /\ options = DefaultOptions /\ GenInit /\ optimizeCode
        /\ HeapInit
CompileSpec == CompileSpecInit /\ [][CompileNext]_vars

====
